---- MODULE Spec2Model ----
(***************************************************************************)
(* A model of slabmap::SlabMap (src/src/lib.rs): the slot array `entries`, *)
(* the free list threaded through the vacant slots, the operations that    *)
(* maintain it and the iterators that walk it, next to the reference map   *)
(* of tests/proptests.rs; and of slabmap::SmallSlabMap                     *)
(* (src/src/small_slab_map.rs), which keeps up to N values inline and      *)
(* moves them to a SlabMap on the heap when they no longer fit.            *)
(***************************************************************************)
EXTENDS Integers, Sequences, FiniteSets, TLC

\* ---------------------------------------------------------------- bounds
MaxSlots == 4        \* insert appends only while the slot array is shorter
MaxValue == 2        \* values are drawn from 1..MaxValue
MaxReserve == 1      \* reserve(additional) with additional in 0..MaxReserve
MaxPairs == 2        \* from_iter over sequences of at most MaxPairs pairs
UsizeBits == 8       \* width of the machine word the model gives usize

Usize == 2 ^ UsizeBits
INVALID_INDEX == Usize - 1
MaxCap == MaxSlots + MaxReserve

Values == 1 .. MaxValue
Keys == (0 .. MaxSlots) \cup {INVALID_INDEX}

\* Option<T>: None is the empty sequence, Some(x) the one-element sequence.
None == << >>
Some(x) == << x >>

\* ---------------------------------------------------------------- Entry<T>
Occupied(v) == [tag |-> "Occupied", value |-> v]
VacantHead(n) == [tag |-> "VacantHead", vacant_body_len |-> n]
VacantTail(n) == [tag |-> "VacantTail", next_vacant_idx |-> n]

IsOccupied(e) == e.tag = "Occupied"

\* entries[i] with Rust's 0-based index
At(es, i) == es[i + 1]
\* entries[i] = e
SetAt(es, i, e) == [es EXCEPT ![i + 1] = e]
\* Vec::truncate(n)
Truncate(es, n) == IF n >= Len(es) THEN es ELSE SubSeq(es, 1, n)

VARIABLES
    entries,              \* SlabMap::entries
    next_vacant_idx,      \* SlabMap::next_vacant_idx (the free list head)
    len,                  \* SlabMap::len
    non_optimized_count,  \* SlabMap::non_optimized_count (the churn counter)
    capacity,             \* entries.capacity()
    m,                    \* the reference map of the property test
    iter,                 \* the live iterator, if any
    last,                 \* the last operation, its argument and its result
    panicked,             \* the last operation panicked
    small                 \* the SmallSlabMap around the map, if there is one

vars == << entries, next_vacant_idx, len, non_optimized_count, capacity,
           m, iter, last, panicked, small >>

\* The fields of a map as a record
Fields(es, nv, n, noc) ==
    [entries |-> es, next_vacant_idx |-> nv, len |-> n,
     non_optimized_count |-> noc]
Self == Fields(entries, next_vacant_idx, len, non_optimized_count)

\* ---------------------------------------------------------------- get
\* SlabMap::get on the map with fields s
get_on(s, key) ==
    IF key >= Len(s.entries) THEN None
    ELSE IF IsOccupied(At(s.entries, key))
    THEN Some(At(s.entries, key).value)
    ELSE None

\* SlabMap::get
get(key) == get_on(Self, key)

\* SlabMap::get_mut
get_mut(key) ==
    IF key >= Len(entries) THEN None
    ELSE IF IsOccupied(At(entries, key)) THEN Some(At(entries, key).value)
    ELSE None

\* contains_key answering for every slot of the array, vacant or not
contains_key_in_range(key) == key < Len(entries)

\* SlabMap::contains_key
contains_key(key) == get(key) # None

\* Index::index: get(index).expect("out of index.")
index(key) ==
    IF get(key) = None THEN [panic |-> TRUE, value |-> None]
    ELSE [panic |-> FALSE, value |-> get(key)]

\* IndexMut::index_mut: get_mut(index).expect("out of index.")
index_mut(key) ==
    IF get_mut(key) = None THEN [panic |-> TRUE, value |-> None]
    ELSE [panic |-> FALSE, value |-> get_mut(key)]

is_empty == len = 0

\* ---------------------------------------------------------------- iterators
NoIter == [kind |-> "none", es |-> << >>, pos |-> 0, len |-> 0,
           out |-> << >>, done |-> FALSE]

\* x -= 1 on a usize, as the unchecked build computes it
WrappingDec(x) == (x + Usize - 1) % Usize

\* The `while let Some(e) = e_opt` loop of Iter::next, started with the
\* enumerated slice iterator at position pos: the position it leaves the
\* iterator at, and the item returned.
RECURSIVE IterAdvance(_, _)
IterAdvance(es, pos) ==
    IF pos >= Len(es) THEN [pos |-> Len(es), item |-> None]
    ELSE LET e == At(es, pos) IN
         CASE e.tag = "Occupied" ->
                [pos |-> pos + 1, item |-> Some(<< pos, e.value >>)]
           [] e.tag = "VacantHead" ->
                IterAdvance(es, pos + 1 + e.vacant_body_len + 1)
           [] e.tag = "VacantTail" ->
                IterAdvance(es, pos + 1)

\* NextWith with the decrement of the remaining count left out
NextWith_no_dec(it, r) ==
    IF r.item = None
    THEN [it EXCEPT !.pos = r.pos, !.done = TRUE]
    ELSE [it EXCEPT !.pos = r.pos, !.out = Append(it.out, r.item[1])]

\* One call of next() on the iterator record it, whose loop is IterAdvance:
\* an Occupied slot decrements the remaining count and is yielded.
NextWith(it, r) ==
    IF r.item = None
    THEN [it EXCEPT !.pos = r.pos, !.done = TRUE]
    ELSE [it EXCEPT !.pos = r.pos, !.len = WrappingDec(it.len),
                    !.out = Append(it.out, r.item[1])]

\* Iter::next reporting the keys counted from the end of the slot array
RECURSIVE IterAdvance_from_end(_, _)
IterAdvance_from_end(es, pos) ==
    IF pos >= Len(es) THEN [pos |-> Len(es), item |-> None]
    ELSE LET e == At(es, pos) IN
         CASE e.tag = "Occupied" ->
                [pos |-> pos + 1,
                 item |-> Some(<< Len(es) - 1 - pos, e.value >>)]
           [] e.tag = "VacantHead" ->
                IterAdvance_from_end(es, pos + 1 + e.vacant_body_len + 1)
           [] e.tag = "VacantTail" ->
                IterAdvance_from_end(es, pos + 1)
Iter_next_from_end(it) == NextWith(it, IterAdvance_from_end(it.es, it.pos))

\* Iter::next reading the slot after the VacantHead it starts at, and
\* starting there when that slot is a VacantHead too
Iter_next_peek(it) ==
    NextWith(it,
             IterAdvance(it.es,
                         IF it.pos + 1 >= Len(it.es) THEN it.pos
                         ELSE IF /\ At(it.es, it.pos).tag = "VacantHead"
                                 /\ At(it.es, it.pos + 1).tag = "VacantHead"
                         THEN it.pos + 1
                         ELSE it.pos))

\* Iter::next
Iter_next(it) == NextWith(it, IterAdvance(it.es, it.pos))
\* IterMut::next
IterMut_next(it) == NextWith(it, IterAdvance(it.es, it.pos))
\* IntoIter::next
IntoIter_next(it) == NextWith(it, IterAdvance(it.es, it.pos))
\* Drain::next with a VacantHead skipping one slot too many
RECURSIVE IterAdvance_overskip(_, _)
IterAdvance_overskip(es, pos) ==
    IF pos >= Len(es) THEN [pos |-> Len(es), item |-> None]
    ELSE LET e == At(es, pos) IN
         CASE e.tag = "Occupied" ->
                [pos |-> pos + 1, item |-> Some(<< pos, e.value >>)]
           [] e.tag = "VacantHead" ->
                IterAdvance_overskip(es, pos + 1 + e.vacant_body_len + 2)
           [] e.tag = "VacantTail" ->
                IterAdvance_overskip(es, pos + 1)
Drain_next_overskip(it) == NextWith(it, IterAdvance_overskip(it.es, it.pos))

\* Drain::next
Drain_next(it) == NextWith(it, IterAdvance(it.es, it.pos))

\* An iterator of the given kind over the slot array es, as iter(),
\* iter_mut(), into_iter() and drain() construct it: len is the map's len.
NewIter(kind, es, n) == [kind |-> kind, es |-> es, pos |-> 0, len |-> n,
                         out |-> << >>, done |-> FALSE]

\* next() of the iterator record it, by the kind of iterator it is
next(it) ==
    CASE it.kind = "iter" -> Iter_next(it)
      [] it.kind = "iter_mut" -> IterMut_next(it)
      [] it.kind = "into_iter" -> IntoIter_next(it)
      [] it.kind = "drain" -> Drain_next(it)

\* it.collect(): the items next() yields until it returns None
RECURSIVE Collect(_)
Collect(it) == IF it.done THEN it.out ELSE Collect(next(it))

\* Iter::size_hint
size_hint(it) == << it.len, Some(it.len) >>

\* ---------------------------------------------------------------- reference map
\* The reference map restricted to the keys of ks
Restrict(f, ks) == [k \in DOMAIN f \cap ks |-> f[k]]
\* HashMap::insert
MapInsert(f, k, v) == [x \in DOMAIN f \cup {k} |-> IF x = k THEN v ELSE f[x]]
\* HashMap::remove
MapRemove(f, k) == [x \in DOMAIN f \ {k} |-> f[x]]
MapGet(f, k) == IF k \in DOMAIN f THEN Some(f[k]) ELSE None
EmptyMap == [x \in {} |-> 0]

\* ---------------------------------------------------------------- state
Ready == ~panicked /\ iter.kind = "none"

\* The last operation: its name, the key it was given (remove) or returned
\* (insert), and whether it returned Some value (remove).
Op(op, key, ret) == [op |-> op, key |-> key, some |-> ret # None]

\* The SlabMap is used directly, with no SmallSlabMap around it
Direct == [N |-> 0, data |-> "Direct", len |-> 0, items |-> << >>]

Init ==
    /\ entries = << >>
    /\ next_vacant_idx = INVALID_INDEX
    /\ len = 0
    /\ non_optimized_count = 0
    /\ capacity = 0
    /\ m = EmptyMap
    /\ iter = NoIter
    /\ last = Op("new", INVALID_INDEX, None)
    /\ panicked = FALSE
    /\ small = Direct

\* ---------------------------------------------------------------- the Vec
\* Vec::reserve(additional) on a vector of length n and capacity cap: nothing
\* when the spare capacity suffices, otherwise some capacity that holds
\* n + additional elements (the growth factor is the allocator's choice).
VecReserve(n, cap, additional) ==
    IF cap - n >= additional THEN {cap}
    ELSE (n + additional) .. MaxCap

\* entries_additional taking the number of values for the number of vacant
\* slots
entries_additional_len(additional) ==
    IF additional > len THEN additional - len ELSE 0

\* SlabMap::entries_additional on the map with fields s
entries_additional_on(s, additional) ==
    LET vacant == Len(s.entries) - s.len IN
    IF additional > vacant THEN additional - vacant ELSE 0

\* SlabMap::entries_additional
entries_additional(additional) == entries_additional_on(Self, additional)

\* ---------------------------------------------------------------- compaction
\* set_vacants with a VacantHead whose vacant_body_len is one too large
set_vacants_long_body(st, vacant_head_idx, vacant_end_idx) ==
    IF vacant_head_idx >= vacant_end_idx THEN st
    ELSE
      LET nv == IF st.next_vacant_idx = INVALID_INDEX
                THEN vacant_head_idx ELSE st.next_vacant_idx
          e1 == IF vacant_head_idx + 2 <= vacant_end_idx
                THEN SetAt(st.entries, vacant_head_idx,
                           VacantHead(vacant_end_idx - (vacant_head_idx + 1)))
                ELSE st.entries
          e2 == SetAt(e1, vacant_end_idx - 1, VacantTail(INVALID_INDEX))
          e3 == IF st.prev_vacant_tail_idx # None
                THEN SetAt(e2, st.prev_vacant_tail_idx[1],
                           VacantTail(vacant_head_idx))
                ELSE e2
      IN [st EXCEPT !.entries = e3, !.next_vacant_idx = nv,
                    !.prev_vacant_tail_idx = Some(vacant_end_idx - 1)]

\* set_vacants writing the run's VacantTail one slot too far, at
\* vacant_end_idx
set_vacants_tail_at_end(st, vacant_head_idx, vacant_end_idx) ==
    IF vacant_head_idx >= vacant_end_idx THEN st
    ELSE
      LET nv == IF st.next_vacant_idx = INVALID_INDEX
                THEN vacant_head_idx ELSE st.next_vacant_idx
          e1 == IF vacant_head_idx + 2 <= vacant_end_idx
                THEN SetAt(st.entries, vacant_head_idx,
                           VacantHead(vacant_end_idx - (vacant_head_idx + 2)))
                ELSE st.entries
          e2 == SetAt(e1, vacant_end_idx, VacantTail(INVALID_INDEX))
          e3 == IF st.prev_vacant_tail_idx # None
                THEN SetAt(e2, st.prev_vacant_tail_idx[1],
                           VacantTail(vacant_head_idx))
                ELSE e2
      IN [st EXCEPT !.entries = e3, !.next_vacant_idx = nv,
                    !.prev_vacant_tail_idx = Some(vacant_end_idx)]

\* set_vacants making every run the head of the free list, not only the
\* first one
set_vacants_last_head(st, vacant_head_idx, vacant_end_idx) ==
    IF vacant_head_idx >= vacant_end_idx THEN st
    ELSE
      LET e1 == IF vacant_head_idx + 2 <= vacant_end_idx
                THEN SetAt(st.entries, vacant_head_idx,
                           VacantHead(vacant_end_idx - (vacant_head_idx + 2)))
                ELSE st.entries
          e2 == SetAt(e1, vacant_end_idx - 1,
                      VacantTail(st.next_vacant_idx))
      IN [st EXCEPT !.entries = e2, !.next_vacant_idx = vacant_head_idx,
                    !.prev_vacant_tail_idx = Some(vacant_end_idx - 1)]

\* set_vacants that does not link the previous run's VacantTail to this run
set_vacants_no_link(st, vacant_head_idx, vacant_end_idx) ==
    IF vacant_head_idx >= vacant_end_idx THEN st
    ELSE
      LET nv == IF st.next_vacant_idx = INVALID_INDEX
                THEN vacant_head_idx ELSE st.next_vacant_idx
          e1 == IF vacant_head_idx + 2 <= vacant_end_idx
                THEN SetAt(st.entries, vacant_head_idx,
                           VacantHead(vacant_end_idx - (vacant_head_idx + 2)))
                ELSE st.entries
          e2 == SetAt(e1, vacant_end_idx - 1, VacantTail(INVALID_INDEX))
      IN [st EXCEPT !.entries = e2, !.next_vacant_idx = nv,
                    !.prev_vacant_tail_idx = Some(vacant_end_idx - 1)]

\* set_vacants putting each run in front of the runs found before it
set_vacants_push_front(st, vacant_head_idx, vacant_end_idx) ==
    IF vacant_head_idx >= vacant_end_idx THEN st
    ELSE
      LET e1 == IF vacant_head_idx + 2 <= vacant_end_idx
                THEN SetAt(st.entries, vacant_head_idx,
                           VacantHead(vacant_end_idx - (vacant_head_idx + 2)))
                ELSE st.entries
          e2 == SetAt(e1, vacant_end_idx - 1,
                      VacantTail(st.next_vacant_idx))
      IN [st EXCEPT !.entries = e2, !.next_vacant_idx = vacant_head_idx,
                    !.prev_vacant_tail_idx = Some(vacant_end_idx - 1)]

\* set_vacants with a VacantHead whose vacant_body_len is one too small
set_vacants_short_body(st, vacant_head_idx, vacant_end_idx) ==
    IF vacant_head_idx >= vacant_end_idx THEN st
    ELSE
      LET nv == IF st.next_vacant_idx = INVALID_INDEX
                THEN vacant_head_idx ELSE st.next_vacant_idx
          e1 == IF vacant_head_idx + 3 <= vacant_end_idx
                THEN SetAt(st.entries, vacant_head_idx,
                           VacantHead(vacant_end_idx - (vacant_head_idx + 3)))
                ELSE st.entries
          e2 == SetAt(e1, vacant_end_idx - 1, VacantTail(INVALID_INDEX))
          e3 == IF st.prev_vacant_tail_idx # None
                THEN SetAt(e2, st.prev_vacant_tail_idx[1],
                           VacantTail(vacant_head_idx))
                ELSE e2
      IN [st EXCEPT !.entries = e3, !.next_vacant_idx = nv,
                    !.prev_vacant_tail_idx = Some(vacant_end_idx - 1)]

\* SlabMap::set_vacants, on the loop state st of merge_vacants
set_vacants(st, vacant_head_idx, vacant_end_idx) ==
    IF vacant_head_idx >= vacant_end_idx THEN st
    ELSE
      LET nv == IF st.next_vacant_idx = INVALID_INDEX
                THEN vacant_head_idx ELSE st.next_vacant_idx
          e1 == IF vacant_head_idx + 2 <= vacant_end_idx
                THEN SetAt(st.entries, vacant_head_idx,
                           VacantHead(vacant_end_idx - (vacant_head_idx + 2)))
                ELSE st.entries
          e2 == SetAt(e1, vacant_end_idx - 1, VacantTail(INVALID_INDEX))
          e3 == IF st.prev_vacant_tail_idx # None
                THEN SetAt(e2, st.prev_vacant_tail_idx[1],
                           VacantTail(vacant_head_idx))
                ELSE e2
      IN [st EXCEPT !.entries = e3, !.next_vacant_idx = nv,
                    !.prev_vacant_tail_idx = Some(vacant_end_idx - 1)]

\* The loop of merge_vacants calling the predicate for a VacantTail slot
\* as well
RECURSIVE merge_loop_vacant_calls(_, _)
merge_loop_vacant_calls(st, keep) ==
    IF st.idx >= Len(st.entries) THEN st
    ELSE LET e == At(st.entries, st.idx) IN
         CASE e.tag = "VacantTail" ->
                merge_loop_vacant_calls(
                  [st EXCEPT !.idx = st.idx + 1,
                             !.calls = Append(st.calls, st.idx)], keep)
           [] e.tag = "VacantHead" ->
                merge_loop_vacant_calls(
                  [st EXCEPT !.idx = st.idx + e.vacant_body_len + 2], keep)
           [] e.tag = "Occupied" ->
                IF st.idx \in keep
                THEN LET s1 == set_vacants(st, st.vacant_head_idx, st.idx) IN
                     merge_loop_vacant_calls(
                       [s1 EXCEPT !.idx = st.idx + 1,
                                  !.len = st.len + 1,
                                  !.vacant_head_idx = st.idx + 1,
                                  !.calls = Append(st.calls, st.idx)], keep)
                ELSE merge_loop_vacant_calls(
                       [st EXCEPT !.entries = SetAt(st.entries, st.idx,
                                                    VacantTail(INVALID_INDEX)),
                                  !.idx = st.idx + 1,
                                  !.calls = Append(st.calls, st.idx)], keep)

\* The `while let Some(e) = self.entries.get_mut(idx)` loop of merge_vacants;
\* the predicate f answers true on the keys of keep. calls lists the keys f
\* was called with.
RECURSIVE merge_loop(_, _)
merge_loop(st, keep) ==
    IF st.idx >= Len(st.entries) THEN st
    ELSE LET e == At(st.entries, st.idx) IN
         CASE e.tag = "VacantTail" ->
                merge_loop([st EXCEPT !.idx = st.idx + 1], keep)
           [] e.tag = "VacantHead" ->
                merge_loop([st EXCEPT !.idx = st.idx + e.vacant_body_len + 2], keep)
           [] e.tag = "Occupied" ->
                IF st.idx \in keep
                THEN LET s1 == set_vacants(st, st.vacant_head_idx, st.idx) IN
                     merge_loop([s1 EXCEPT !.idx = st.idx + 1,
                                           !.len = st.len + 1,
                                           !.vacant_head_idx = st.idx + 1,
                                           !.calls = Append(st.calls, st.idx)],
                                keep)
                ELSE merge_loop([st EXCEPT
                                   !.entries = SetAt(st.entries, st.idx,
                                                     VacantTail(INVALID_INDEX)),
                                   !.idx = st.idx + 1,
                                   !.calls = Append(st.calls, st.idx)],
                                keep)

\* The loop of merge_vacants started at slot 1: slot 0 never meets the
\* predicate
merge_run_from_one(es, keep) ==
    merge_loop([entries |-> es, next_vacant_idx |-> INVALID_INDEX,
                idx |-> 1, vacant_head_idx |-> 1,
                prev_vacant_tail_idx |-> None, len |-> 0,
                calls |-> << >>], keep)

\* The loop of merge_vacants from its initial state
merge_run(es, keep) ==
    merge_loop([entries |-> es, next_vacant_idx |-> INVALID_INDEX,
                idx |-> 0, vacant_head_idx |-> 0,
                prev_vacant_tail_idx |-> None, len |-> 0,
                calls |-> << >>], keep)

\* merge_vacants that does not reset next_vacant_idx before the loop
merge_vacants_stale_head(es, keep) ==
    LET st == merge_loop([entries |-> es, next_vacant_idx |-> next_vacant_idx,
                          idx |-> 0, vacant_head_idx |-> 0,
                          prev_vacant_tail_idx |-> None, len |-> 0,
                          calls |-> << >>], keep)
    IN [entries |-> Truncate(st.entries, st.vacant_head_idx),
        next_vacant_idx |-> st.next_vacant_idx,
        non_optimized_count |-> 0,
        len |-> st.len,
        calls |-> st.calls]

\* merge_vacants counting every slot the predicate saw, kept or not
merge_vacants_len_calls(es, keep) ==
    LET st == merge_run(es, keep)
    IN [entries |-> Truncate(st.entries, st.vacant_head_idx),
        next_vacant_idx |-> st.next_vacant_idx,
        non_optimized_count |-> 0,
        len |-> Len(st.calls),
        calls |-> st.calls]

\* merge_vacants that leaves non_optimized_count as it was
merge_vacants_keep_count(es, keep) ==
    LET st == merge_run(es, keep)
    IN [entries |-> Truncate(st.entries, st.vacant_head_idx),
        next_vacant_idx |-> st.next_vacant_idx,
        non_optimized_count |-> non_optimized_count,
        len |-> st.len,
        calls |-> st.calls]

\* SlabMap::merge_vacants on the slot array es: the fields it leaves behind.
merge_vacants(es, keep) ==
    LET st == merge_run(es, keep)
    IN [entries |-> Truncate(st.entries, st.vacant_head_idx),
        next_vacant_idx |-> st.next_vacant_idx,
        non_optimized_count |-> 0,
        len |-> st.len,
        calls |-> st.calls]

OccupiedKeys(es) == {k \in 0 .. Len(es) - 1 : IsOccupied(At(es, k))}

\* ---------------------------------------------------------------- operations
\* insert_with_key appending a slot whatever the free list holds
InsertResult_append(v) ==
    [panic |-> FALSE, idx |-> Len(entries),
     entries |-> Append(entries, Occupied(v)),
     next_vacant_idx |-> next_vacant_idx,
     non_optimized_count |-> non_optimized_count,
     len |-> len + 1]

\* insert_with_key handing f the length of the slot array for the key
insert_with_key_len_key(f) ==
    IF next_vacant_idx < Len(entries)
    THEN LET idx == next_vacant_idx
             e == At(entries, idx)
         IN CASE e.tag = "VacantHead" ->
                   IF e.vacant_body_len > 0 /\ idx + 1 >= Len(entries)
                   THEN [panic |-> TRUE, idx |-> idx, calls |-> << >>,
                         entries |-> entries,
                         next_vacant_idx |-> next_vacant_idx,
                         non_optimized_count |-> non_optimized_count, len |-> len]
                   ELSE [panic |-> FALSE, idx |-> idx, calls |-> << Len(entries) >>,
                         entries |->
                           SetAt(IF e.vacant_body_len > 0
                                 THEN SetAt(entries, idx + 1,
                                            VacantHead(e.vacant_body_len - 1))
                                 ELSE entries,
                                 idx, Occupied(f[Len(entries)])),
                         next_vacant_idx |-> idx + 1,
                         non_optimized_count |->
                           IF non_optimized_count > 0
                           THEN non_optimized_count - 1 ELSE 0,
                         len |-> len + 1]
              [] e.tag = "VacantTail" ->
                   [panic |-> FALSE, idx |-> idx, calls |-> << Len(entries) >>,
                    entries |-> SetAt(entries, idx, Occupied(f[Len(entries)])),
                    next_vacant_idx |-> e.next_vacant_idx,
                    non_optimized_count |->
                      IF non_optimized_count > 0
                      THEN non_optimized_count - 1 ELSE 0,
                    len |-> len + 1]
              [] e.tag = "Occupied" ->
                   [panic |-> TRUE, idx |-> idx, calls |-> << >>,
                    entries |-> entries,
                    next_vacant_idx |-> next_vacant_idx,
                    non_optimized_count |-> non_optimized_count, len |-> len]
    ELSE [panic |-> FALSE, idx |-> Len(entries), calls |-> << Len(entries) >>,
          entries |-> Append(entries, Occupied(f[Len(entries)])),
          next_vacant_idx |-> next_vacant_idx,
          non_optimized_count |-> non_optimized_count,
          len |-> len + 1]

\* SlabMap::insert_with_key on the map with fields s. f maps each key to
\* the value the closure produces for it; calls lists the keys the closure
\* was called with. A panic (unreachable!(), an index out of bounds) is
\* reported with the fields as they were.
insert_with_key_on(s, f) ==
    IF s.next_vacant_idx < Len(s.entries)
    THEN LET idx == s.next_vacant_idx
             e == At(s.entries, idx)
         IN CASE e.tag = "VacantHead" ->
                   IF e.vacant_body_len > 0 /\ idx + 1 >= Len(s.entries)
                   THEN [panic |-> TRUE, idx |-> idx, calls |-> << >>,
                         entries |-> s.entries,
                         next_vacant_idx |-> s.next_vacant_idx,
                         non_optimized_count |-> s.non_optimized_count, len |-> s.len]
                   ELSE [panic |-> FALSE, idx |-> idx, calls |-> << idx >>,
                         entries |->
                           SetAt(IF e.vacant_body_len > 0
                                 THEN SetAt(s.entries, idx + 1,
                                            VacantHead(e.vacant_body_len - 1))
                                 ELSE s.entries,
                                 idx, Occupied(f[idx])),
                         next_vacant_idx |-> idx + 1,
                         non_optimized_count |->
                           IF s.non_optimized_count > 0
                           THEN s.non_optimized_count - 1 ELSE 0,
                         len |-> s.len + 1]
              [] e.tag = "VacantTail" ->
                   [panic |-> FALSE, idx |-> idx, calls |-> << idx >>,
                    entries |-> SetAt(s.entries, idx, Occupied(f[idx])),
                    next_vacant_idx |-> e.next_vacant_idx,
                    non_optimized_count |->
                      IF s.non_optimized_count > 0
                      THEN s.non_optimized_count - 1 ELSE 0,
                    len |-> s.len + 1]
              [] e.tag = "Occupied" ->
                   [panic |-> TRUE, idx |-> idx, calls |-> << >>,
                    entries |-> s.entries,
                    next_vacant_idx |-> s.next_vacant_idx,
                    non_optimized_count |-> s.non_optimized_count, len |-> s.len]
    ELSE [panic |-> FALSE, idx |-> Len(s.entries), calls |-> << Len(s.entries) >>,
          entries |-> Append(s.entries, Occupied(f[Len(s.entries)])),
          next_vacant_idx |-> s.next_vacant_idx,
          non_optimized_count |-> s.non_optimized_count,
          len |-> s.len + 1]

\* insert_with_key on the map with fields s with a closure f that panics:
\* the fields the unwinding leaves. On the reuse path next_vacant_idx and
\* the slot after a VacantHead are written before f is called; the slot
\* idx itself, non_optimized_count and len are written after it. On the
\* append path f is called before the push.
insert_with_key_unwind(s) ==
    IF s.next_vacant_idx < Len(s.entries)
    THEN LET idx == s.next_vacant_idx
             e == At(s.entries, idx)
         IN CASE e.tag = "VacantHead" ->
                   IF e.vacant_body_len > 0 /\ idx + 1 >= Len(s.entries)
                   THEN s
                   ELSE [s EXCEPT
                           !.entries =
                             IF e.vacant_body_len > 0
                             THEN SetAt(s.entries, idx + 1,
                                        VacantHead(e.vacant_body_len - 1))
                             ELSE s.entries,
                           !.next_vacant_idx = idx + 1]
              [] e.tag = "VacantTail" ->
                   [s EXCEPT !.next_vacant_idx = e.next_vacant_idx]
              [] e.tag = "Occupied" -> s
    ELSE s

\* insert_with_key giving the rest of a VacantHead run the body length of
\* the whole run
insert_with_key_same_body(f) ==
    LET r == insert_with_key_on(Self, f) IN
    IF next_vacant_idx >= Len(entries) \/ r.panic THEN r
    ELSE IF At(entries, next_vacant_idx).tag # "VacantHead" THEN r
    ELSE IF At(entries, next_vacant_idx).vacant_body_len = 0 THEN r
    ELSE [r EXCEPT !.entries =
            SetAt(r.entries, r.idx + 1,
                  VacantHead(At(entries, next_vacant_idx).vacant_body_len))]

\* insert_with_key leaving the slot after a VacantHead as it was
insert_with_key_stale_next(f) ==
    LET r == insert_with_key_on(Self, f) IN
    IF next_vacant_idx >= Len(entries) \/ r.panic THEN r
    ELSE IF At(entries, next_vacant_idx).tag # "VacantHead" THEN r
    ELSE [r EXCEPT !.entries =
            SetAt(r.entries, r.idx + 1, At(entries, r.idx + 1))]

\* insert_with_key leaving non_optimized_count as it was
insert_with_key_keep_count(f) ==
    [insert_with_key_on(Self, f) EXCEPT
       !.non_optimized_count = non_optimized_count]

\* insert_with_key that leaves next_vacant_idx on the slot it fills when
\* that slot is a VacantTail
insert_with_key_keep_head(f) ==
    LET r == insert_with_key_on(Self, f) IN
    IF /\ next_vacant_idx < Len(entries)
       /\ At(entries, next_vacant_idx).tag = "VacantTail"
    THEN [r EXCEPT !.next_vacant_idx = next_vacant_idx]
    ELSE r

\* SlabMap::insert_with_key on self
insert_with_key(f) == insert_with_key_on(Self, f)

\* SlabMap::insert(value): insert_with_key(|_| value)
InsertResult(v) == insert_with_key([key \in 0 .. MaxSlots |-> v])

\* SlabMap::insert
Insert(v) ==
    /\ Ready
    /\ \E r \in {InsertResult(v)} :
       /\ Len(r.entries) <= MaxSlots
       /\ entries' = r.entries
       /\ next_vacant_idx' = r.next_vacant_idx
       /\ non_optimized_count' = r.non_optimized_count
       /\ len' = r.len
       /\ panicked' = r.panic
       /\ capacity' \in VecReserve(Len(entries), capacity,
                                   Len(r.entries) - Len(entries))
       /\ m' = IF r.panic THEN m ELSE MapInsert(m, r.idx, v)
       /\ last' = Op(IF r.panic THEN "panic" ELSE "insert", r.idx, None)
    /\ UNCHANGED iter
    /\ UNCHANGED small

\* remove that leaves next_vacant_idx as it was
RemoveResult_stale_head(key) ==
    LET is_last == (key + 1) % Usize = Len(entries) IN
    IF key >= Len(entries) \/ ~IsOccupied(At(entries, key))
    THEN [ret |-> None, entries |-> entries,
          next_vacant_idx |-> next_vacant_idx,
          non_optimized_count |-> non_optimized_count, len |-> len]
    ELSE IF WrappingDec(len) = 0
    THEN [ret |-> Some(At(entries, key).value), entries |-> << >>,
          next_vacant_idx |-> INVALID_INDEX,
          non_optimized_count |-> 0, len |-> 0]
    ELSE [ret |-> Some(At(entries, key).value),
          entries |-> IF is_last THEN SubSeq(entries, 1, Len(entries) - 1)
                      ELSE SetAt(entries, key, VacantTail(next_vacant_idx)),
          next_vacant_idx |-> next_vacant_idx,
          non_optimized_count |-> IF is_last THEN non_optimized_count
                                  ELSE non_optimized_count + 1,
          len |-> WrappingDec(len)]

\* remove that leaves non_optimized_count as it was
RemoveResult_keep_count(key) ==
    LET is_last == (key + 1) % Usize = Len(entries) IN
    IF key >= Len(entries) \/ ~IsOccupied(At(entries, key))
    THEN [ret |-> None, entries |-> entries,
          next_vacant_idx |-> next_vacant_idx,
          non_optimized_count |-> non_optimized_count, len |-> len]
    ELSE IF WrappingDec(len) = 0
    THEN [ret |-> Some(At(entries, key).value), entries |-> << >>,
          next_vacant_idx |-> INVALID_INDEX,
          non_optimized_count |-> 0, len |-> 0]
    ELSE [ret |-> Some(At(entries, key).value),
          entries |-> IF is_last THEN SubSeq(entries, 1, Len(entries) - 1)
                      ELSE SetAt(entries, key, VacantTail(next_vacant_idx)),
          next_vacant_idx |-> IF is_last THEN next_vacant_idx ELSE key,
          non_optimized_count |-> non_optimized_count,
          len |-> WrappingDec(len)]

\* remove that counts the pop of the final slot in non_optimized_count
RemoveResult_count_pop(key) ==
    LET is_last == (key + 1) % Usize = Len(entries) IN
    IF key >= Len(entries) \/ ~IsOccupied(At(entries, key))
    THEN [ret |-> None, entries |-> entries,
          next_vacant_idx |-> next_vacant_idx,
          non_optimized_count |-> non_optimized_count, len |-> len]
    ELSE IF WrappingDec(len) = 0
    THEN [ret |-> Some(At(entries, key).value), entries |-> << >>,
          next_vacant_idx |-> INVALID_INDEX,
          non_optimized_count |-> 0, len |-> 0]
    ELSE [ret |-> Some(At(entries, key).value),
          entries |-> IF is_last THEN SubSeq(entries, 1, Len(entries) - 1)
                      ELSE SetAt(entries, key, VacantTail(next_vacant_idx)),
          next_vacant_idx |-> IF is_last THEN next_vacant_idx ELSE key,
          non_optimized_count |-> non_optimized_count + 1,
          len |-> WrappingDec(len)]

\* remove without the clear() of a map whose last value it took
RemoveResult_no_clear(key) ==
    LET is_last == (key + 1) % Usize = Len(entries) IN
    IF key >= Len(entries) \/ ~IsOccupied(At(entries, key))
    THEN [ret |-> None, entries |-> entries,
          next_vacant_idx |-> next_vacant_idx,
          non_optimized_count |-> non_optimized_count, len |-> len]
    ELSE [ret |-> Some(At(entries, key).value),
          entries |-> IF is_last THEN SubSeq(entries, 1, Len(entries) - 1)
                      ELSE SetAt(entries, key, VacantTail(next_vacant_idx)),
          next_vacant_idx |-> IF is_last THEN next_vacant_idx ELSE key,
          non_optimized_count |-> IF is_last THEN non_optimized_count
                                  ELSE non_optimized_count + 1,
          len |-> WrappingDec(len)]

\* SlabMap::remove, past the computation of key + 1, on the map with
\* fields s
RemoveResult_on(s, key) ==
    LET is_last == (key + 1) % Usize = Len(s.entries) IN
    IF key >= Len(s.entries) \/ ~IsOccupied(At(s.entries, key))
    THEN [ret |-> None, entries |-> s.entries,
          next_vacant_idx |-> s.next_vacant_idx,
          non_optimized_count |-> s.non_optimized_count, len |-> s.len]
    ELSE LET len1 == WrappingDec(s.len)
             es1 == IF is_last THEN SubSeq(s.entries, 1, Len(s.entries) - 1)
                    ELSE SetAt(s.entries, key, VacantTail(s.next_vacant_idx))
             nv1 == IF is_last THEN s.next_vacant_idx ELSE key
             noc1 == IF is_last THEN s.non_optimized_count
                     ELSE s.non_optimized_count + 1
         IN IF len1 = 0
            THEN [ret |-> Some(At(s.entries, key).value), entries |-> << >>,
                  next_vacant_idx |-> INVALID_INDEX,
                  non_optimized_count |-> 0, len |-> 0]
            ELSE [ret |-> Some(At(s.entries, key).value), entries |-> es1,
                  next_vacant_idx |-> nv1,
                  non_optimized_count |-> noc1, len |-> len1]

\* SlabMap::remove, past the computation of key + 1
RemoveResult(key) == RemoveResult_on(Self, key)

\* SlabMap::remove. key + 1 overflows for key = usize::MAX: a build with
\* overflow checks panics there, a build without them wraps.
Remove(key) ==
    /\ Ready
    /\ \E overflow_checks \in IF key + 1 >= Usize THEN BOOLEAN ELSE {FALSE} :
         IF overflow_checks
         THEN /\ panicked' = TRUE
              /\ last' = Op("panic", key, None)
              /\ UNCHANGED << entries, next_vacant_idx, non_optimized_count,
                              len, m >>
         ELSE \E r \in {RemoveResult(key)} :
              /\ entries' = r.entries
              /\ next_vacant_idx' = r.next_vacant_idx
              /\ non_optimized_count' = r.non_optimized_count
              /\ len' = r.len
              /\ m' = MapRemove(m, key)
              /\ last' = Op("remove", key, r.ret)
              /\ UNCHANGED panicked
    /\ UNCHANGED << capacity, iter >>
    /\ UNCHANGED small

\* clear that leaves non_optimized_count as it was
Clear_keep_count ==
    /\ Ready
    /\ entries' = << >>
    /\ len' = 0
    /\ next_vacant_idx' = INVALID_INDEX
    /\ m' = EmptyMap
    /\ last' = Op("clear", INVALID_INDEX, None)
    /\ UNCHANGED << non_optimized_count, capacity, iter, panicked >>
    /\ UNCHANGED small

\* SlabMap::clear
Clear ==
    /\ Ready
    /\ entries' = << >>
    /\ len' = 0
    /\ next_vacant_idx' = INVALID_INDEX
    /\ non_optimized_count' = 0
    /\ m' = EmptyMap
    /\ last' = Op("clear", INVALID_INDEX, None)
    /\ UNCHANGED << capacity, iter, panicked >>
    /\ UNCHANGED small

\* The loop of merge_vacants with a predicate f that panics when it is
\* called with the key panic_at: the loop state the unwinding leaves.
RECURSIVE merge_loop_unwind(_, _, _)
merge_loop_unwind(st, keep, panic_at) ==
    IF st.idx >= Len(st.entries) THEN st
    ELSE LET e == At(st.entries, st.idx) IN
         CASE e.tag = "VacantTail" ->
                merge_loop_unwind([st EXCEPT !.idx = st.idx + 1],
                                  keep, panic_at)
           [] e.tag = "VacantHead" ->
                merge_loop_unwind(
                  [st EXCEPT !.idx = st.idx + e.vacant_body_len + 2],
                  keep, panic_at)
           [] e.tag = "Occupied" ->
                IF st.idx = panic_at
                THEN [st EXCEPT !.calls = Append(st.calls, st.idx)]
                ELSE IF st.idx \in keep
                THEN LET s1 == set_vacants(st, st.vacant_head_idx, st.idx) IN
                     merge_loop_unwind(
                       [s1 EXCEPT !.idx = st.idx + 1,
                                  !.len = st.len + 1,
                                  !.vacant_head_idx = st.idx + 1,
                                  !.calls = Append(st.calls, st.idx)],
                       keep, panic_at)
                ELSE merge_loop_unwind(
                       [st EXCEPT
                          !.entries = SetAt(st.entries, st.idx,
                                            VacantTail(INVALID_INDEX)),
                          !.idx = st.idx + 1,
                          !.calls = Append(st.calls, st.idx)],
                       keep, panic_at)

\* SlabMap::retain with a predicate that answers true on the keys of keep
\* until it panics at the key panic_at: the fields of the map once the
\* panic has been caught. The slots and next_vacant_idx are as the loop
\* left them; the stores to len and non_optimized_count that follow the
\* loop were never reached.
retain_unwind(keep, panic_at) ==
    LET st == merge_loop_unwind(
                [entries |-> entries, next_vacant_idx |-> INVALID_INDEX,
                 idx |-> 0, vacant_head_idx |-> 0,
                 prev_vacant_tail_idx |-> None, len |-> 0,
                 calls |-> << >>], keep, panic_at)
    IN Fields(st.entries, st.next_vacant_idx, len, non_optimized_count)

\* SlabMap::retain, with a predicate that answers true on the keys of keep
Retain(keep) ==
    /\ Ready
    /\ \E r \in {merge_vacants(entries, keep)} :
       /\ entries' = r.entries
       /\ next_vacant_idx' = r.next_vacant_idx
       /\ non_optimized_count' = r.non_optimized_count
       /\ len' = r.len
       /\ last' = Op("retain", INVALID_INDEX, None)
    /\ m' = Restrict(m, keep)
    /\ UNCHANGED << capacity, iter, panicked >>
    /\ UNCHANGED small

\* SlabMap::force_optimize on the map with fields s
force_optimize(s) ==
    LET r == merge_vacants(s.entries, OccupiedKeys(s.entries)) IN
    Fields(r.entries, r.next_vacant_idx, r.len, r.non_optimized_count)

\* optimize that leaves the map as it is
optimize_noop(s) == s

\* SlabMap::optimize on the map with fields s: the fields it leaves
optimize(s) ==
    IF s.non_optimized_count # 0 THEN force_optimize(s) ELSE s

Optimize ==
    /\ Ready
    /\ \E r \in {optimize(Self)} :
            /\ entries' = r.entries
            /\ next_vacant_idx' = r.next_vacant_idx
            /\ non_optimized_count' = r.non_optimized_count
            /\ len' = r.len
    /\ last' = Op("optimize", INVALID_INDEX, None)
    /\ UNCHANGED << capacity, m, iter, panicked >>
    /\ UNCHANGED small

\* SlabMap::reserve
Reserve(additional) ==
    /\ Ready
    /\ Len(entries) + entries_additional(additional) <= MaxCap
    /\ capacity' \in VecReserve(Len(entries), capacity,
                                entries_additional(additional))
    /\ last' = Op("reserve", INVALID_INDEX, None)
    /\ UNCHANGED << entries, next_vacant_idx, non_optimized_count, len,
                    m, iter, panicked >>
    /\ UNCHANGED small

\* drain that leaves next_vacant_idx as it was
Drain_stale_head ==
    /\ Ready
    /\ iter' = NewIter("drain", entries, len)
    /\ len' = 0
    /\ non_optimized_count' = 0
    /\ entries' = << >>
    /\ m' = EmptyMap
    /\ last' = Op("drain", INVALID_INDEX, None)
    /\ UNCHANGED << next_vacant_idx, capacity, panicked >>
    /\ UNCHANGED small

\* SlabMap::drain: the fields are reset and entries.drain(..) empties the
\* vector at once, handing its slots to the Drain iterator.
Drain ==
    /\ Ready
    /\ iter' = NewIter("drain", entries, len)
    /\ len' = 0
    /\ next_vacant_idx' = INVALID_INDEX
    /\ non_optimized_count' = 0
    /\ entries' = << >>
    /\ m' = EmptyMap
    /\ last' = Op("drain", INVALID_INDEX, None)
    /\ UNCHANGED << capacity, panicked >>
    /\ UNCHANGED small

\* SlabMap::iter and SlabMap::iter_mut: the map stays borrowed while the
\* iterator lives.
IterStart(kind) ==
    /\ Ready
    /\ iter' = NewIter(kind, entries, len)
    /\ last' = Op(kind, INVALID_INDEX, None)
    /\ UNCHANGED << entries, next_vacant_idx, non_optimized_count, len,
                    capacity, m, panicked >>
    /\ UNCHANGED small

\* IntoIterator::into_iter consumes the map: its slots move into the
\* iterator and the program goes on with a SlabMap::new().
IntoIter ==
    /\ Ready
    /\ iter' = NewIter("into_iter", entries, len)
    /\ entries' = << >>
    /\ next_vacant_idx' = INVALID_INDEX
    /\ len' = 0
    /\ non_optimized_count' = 0
    /\ capacity' = 0
    /\ m' = EmptyMap
    /\ last' = Op("into_iter", INVALID_INDEX, None)
    /\ UNCHANGED panicked
    /\ UNCHANGED small

\* One call of next() on the live iterator
IterNext ==
    /\ ~panicked
    /\ iter.kind # "none"
    /\ iter' = next(iter)
    /\ UNCHANGED << entries, next_vacant_idx, non_optimized_count, len,
                    capacity, m, last, panicked >>
    /\ UNCHANGED small

\* The iterator is dropped, consumed or not. Dropping a Drain drops the
\* slots it has not yielded; the vector is empty already.
IterDrop ==
    /\ ~panicked
    /\ iter.kind # "none"
    /\ iter' = NoIter
    /\ UNCHANGED << entries, next_vacant_idx, non_optimized_count, len,
                    capacity, m, last, panicked >>
    /\ UNCHANGED small

\* from_iter_with_capacity keeping the first value given for a key
RECURSIVE from_iter_entries_first_wins(_, _)
from_iter_entries_first_wins(es, kvs) ==
    IF kvs = << >> THEN es
    ELSE LET key == kvs[1][1]
             value == kvs[1][2]
             grown == IF key >= Len(es)
                      THEN es \o [i \in 1 .. key + 1 - Len(es) |->
                                    VacantTail(INVALID_INDEX)]
                      ELSE es
         IN from_iter_entries_first_wins(
              IF IsOccupied(At(grown, key)) THEN grown
              ELSE SetAt(grown, key, Occupied(value)), Tail(kvs))

\* The slot array from_iter_with_capacity builds from the pairs kvs
RECURSIVE from_iter_entries(_, _)
from_iter_entries(es, kvs) ==
    IF kvs = << >> THEN es
    ELSE LET key == kvs[1][1]
             value == kvs[1][2]
             grown == IF key >= Len(es)
                      THEN es \o [i \in 1 .. key + 1 - Len(es) |->
                                    VacantTail(INVALID_INDEX)]
                      ELSE es
         IN from_iter_entries(SetAt(grown, key, Occupied(value)), Tail(kvs))

\* BTreeMap::from_iter: the last value given for a key wins
RECURSIVE MapFromIter(_, _)
MapFromIter(f, kvs) ==
    IF kvs = << >> THEN f
    ELSE MapFromIter(MapInsert(f, kvs[1][1], kvs[1][2]), Tail(kvs))

Pairs == (0 .. MaxSlots - 1) \X Values
PairSeqs == UNION {[1 .. n -> Pairs] : n \in 0 .. MaxPairs}

\* SlabMap::from_iter: a constructor, so it acts where SlabMap::new() did.
FromIter(kvs) ==
    /\ \E r \in {merge_vacants(from_iter_entries(<< >>, kvs), 0 .. MaxSlots)} :
       /\ entries' = r.entries
       /\ next_vacant_idx' = r.next_vacant_idx
       /\ non_optimized_count' = r.non_optimized_count
       /\ len' = r.len
       /\ capacity' \in Len(r.entries) .. MaxCap
    /\ m' = MapFromIter(EmptyMap, kvs)
    /\ last' = Op("from_iter", INVALID_INDEX, None)
    /\ UNCHANGED << iter, panicked >>
    /\ UNCHANGED small

Next ==
    \/ \E v \in Values : Insert(v)
    \/ (Ready /\ last.op = "new" /\ \E kvs \in PairSeqs : FromIter(kvs))
    \/ Drain
    \/ \E kind \in {"iter", "iter_mut"} : IterStart(kind)
    \/ IntoIter
    \/ IterNext
    \/ IterDrop
    \/ \E key \in Keys : Remove(key)
    \/ Clear
    \/ \E keep \in SUBSET OccupiedKeys(entries) : Retain(keep)
    \/ Optimize
    \/ \E additional \in 0 .. MaxReserve : Reserve(additional)

Spec == Init /\ [][Next]_vars

\* ================================================================ SmallSlabMap
\* slabmap::SmallSlabMap<T, N> (src/src/small_slab_map.rs): small.data is
\* the variant of the Option<Data> it holds, small.len and small.items are
\* the fields of Data::Inline, and the SlabMap of Data::Heap is the map of
\* the variables entries, next_vacant_idx, len and non_optimized_count.
U8_MAX == 255

\* The values of N the property test runs with
InlineCapacities == {0, 1}

INLINE_CAPACITY(N) == IF N <= U8_MAX THEN N ELSE U8_MAX

\* from_fn(|_| None): an array of N empty items
NoItems(N) == [i \in 1 .. N |-> None]

\* SmallSlabMap::new
SmallNew(N) == [N |-> N, data |-> "None", len |-> 0, items |-> NoItems(N)]

\* The value of a SmallSlabMap whose data moved to the heap
SmallHeap(s) == [s EXCEPT !.data = "Heap", !.len = 0, !.items = NoItems(s.N)]

is_heap == small.data = "Heap"

\* SmallSlabMap::len
Small_len ==
    CASE small.data = "None" -> 0
      [] small.data = "Inline" -> small.len
      [] small.data = "Heap" -> len

\* SmallSlabMap::capacity
Small_capacity ==
    IF is_heap THEN capacity ELSE INLINE_CAPACITY(small.N)

\* SmallSlabMap::as_data: an absent Data becomes an empty Data::Inline
as_data(s) ==
    IF s.data = "None"
    THEN [s EXCEPT !.data = "Inline", !.len = 0, !.items = NoItems(s.N)]
    ELSE s

\* The items an inline iterator yields until next() returns None, the
\* enumerated array iterator being at position pos and the iterator's len
\* being n: each next() decrements len and takes items until one is Some;
\* the unwrap() of an exhausted array iterator panics.
RECURSIVE InlineCollect(_, _, _)
InlineCollect(items, pos, n) ==
    IF n = 0 THEN [panic |-> FALSE, out |-> << >>]
    ELSE IF pos >= Len(items) THEN [panic |-> TRUE, out |-> << >>]
    ELSE IF At(items, pos) # None
    THEN LET rest == InlineCollect(items, pos + 1, n - 1)
         IN [panic |-> rest.panic,
             out |-> << << pos, At(items, pos)[1] >> >> \o rest.out]
    ELSE InlineCollect(items, pos + 1, n)

\* mem::take(self).into_iter(): the pairs the owning iterator yields
Small_into_iter ==
    IF small.data = "Inline" THEN InlineCollect(small.items, 0, small.len)
    ELSE [panic |-> FALSE, out |-> << >>]

\* (&small).into_iter(), collected
Small_iter ==
    CASE small.data = "None" -> [panic |-> FALSE, out |-> << >>]
      [] small.data = "Inline" -> InlineCollect(small.items, 0, small.len)
      [] small.data = "Heap" ->
           [panic |-> FALSE, out |-> Collect(NewIter("iter", entries, len))]

\* SlabMap::from_iter over the pairs kvs: the fields of the map it builds
SlabMap_from_iter(kvs) ==
    LET r == merge_vacants(from_iter_entries(<< >>, kvs), 0 .. MaxSlots)
    IN Fields(r.entries, r.next_vacant_idx, r.len, r.non_optimized_count)

\* as_heap building an empty SlabMap instead of collecting the inline items
as_heap_empty ==
    IF is_heap THEN Self ELSE SlabMap_from_iter(<< >>)

\* SmallSlabMap::as_heap: the fields of the SlabMap it returns, which is
\* the one held already or the one collected from the inline items
as_heap ==
    IF is_heap THEN Self ELSE SlabMap_from_iter(Small_into_iter.out)

\* The capacities the SlabMap as_heap returns can have: collect() leaves
\* the vector any capacity that holds its slots
as_heap_capacities ==
    IF is_heap THEN {capacity} ELSE Len(as_heap.entries) .. MaxCap

\* The condition of SmallSlabMap::try_reserve: the inline array has the
\* room asked for, and nothing is done
try_reserve_inline(additional) ==
    ~is_heap /\ Small_len + additional <= INLINE_CAPACITY(small.N)

\* The values capacity() can have after SmallSlabMap::try_reserve
try_reserve_capacities(additional) ==
    IF try_reserve_inline(additional) THEN {INLINE_CAPACITY(small.N)}
    ELSE UNION {VecReserve(Len(as_heap.entries), c,
                           entries_additional_on(as_heap, additional)) :
                  c \in as_heap_capacities}

\* items.iter().position(|x| x.is_none())
position_none(items) ==
    LET free == {i \in 0 .. Len(items) - 1 : At(items, i) = None} IN
    IF free = {} THEN None
    ELSE Some(CHOOSE i \in free : \A j \in free : i <= j)

\* The Data::Inline arm of SmallSlabMap::insert_with_key on the value s
Inline_insert_with_key(s, f) ==
    IF position_none(s.items) = None
    THEN [panic |-> TRUE, idx |-> INVALID_INDEX, small |-> s]
    ELSE LET pos == position_none(s.items)[1] IN
         [panic |-> FALSE, idx |-> pos,
          small |-> [s EXCEPT !.items = SetAt(s.items, pos, Some(f[pos])),
                              !.len = (s.len + 1) % (U8_MAX + 1)]]

\* The Data::Inline arm of SmallSlabMap::remove on the value s
Inline_remove(s, key) ==
    IF key >= Len(s.items) THEN [ret |-> None, small |-> s]
    ELSE [ret |-> At(s.items, key),
          small |-> IF At(s.items, key) # None
                    THEN [s EXCEPT !.items = SetAt(s.items, key, None),
                                   !.len = s.len - 1]
                    ELSE s]

\* What SmallSlabMap::remove(key) returns
Small_remove_ret(key) ==
    IF is_heap THEN RemoveResult(key).ret
    ELSE Inline_remove(as_data(small), key).ret

\* SmallSlabMap::insert: reserve(1), then the insert into the inline array
\* or into the SlabMap as_heap left
SmallInsert(v) ==
    /\ Ready
    /\ LET f == [key \in 0 .. MaxSlots |-> v] IN
       IF try_reserve_inline(1)
       THEN \E r \in {Inline_insert_with_key(as_data(small), f)} :
              /\ small' = r.small
              /\ panicked' = r.panic
              /\ m' = IF r.panic THEN m ELSE MapInsert(m, r.idx, v)
              /\ last' = Op(IF r.panic THEN "panic" ELSE "insert", r.idx, None)
              /\ UNCHANGED << entries, next_vacant_idx, non_optimized_count,
                              len, capacity >>
       ELSE \E r \in {insert_with_key_on(as_heap, f)} :
              /\ Len(r.entries) <= MaxSlots
              /\ small' = SmallHeap(small)
              /\ entries' = r.entries
              /\ next_vacant_idx' = r.next_vacant_idx
              /\ non_optimized_count' = r.non_optimized_count
              /\ len' = r.len
              /\ capacity' \in try_reserve_capacities(1)
              /\ panicked' = (r.panic \/ Small_into_iter.panic)
              /\ m' = IF r.panic THEN m ELSE MapInsert(m, r.idx, v)
              /\ last' = Op(IF r.panic THEN "panic" ELSE "insert", r.idx, None)
    /\ UNCHANGED iter

\* SmallSlabMap::remove
SmallRemove(key) ==
    IF is_heap THEN Remove(key)
    ELSE /\ Ready
         /\ \E r \in {Inline_remove(as_data(small), key)} :
              /\ small' = r.small
              /\ last' = Op("remove", key, r.ret)
         /\ m' = MapRemove(m, key)
         /\ UNCHANGED << entries, next_vacant_idx, non_optimized_count, len,
                         capacity, iter, panicked >>

\* SmallSlabMap::clear
SmallClear ==
    IF is_heap THEN Clear
    ELSE /\ Ready
         /\ small' = [as_data(small) EXCEPT !.len = 0,
                                            !.items = NoItems(small.N)]
         /\ m' = EmptyMap
         /\ last' = Op("clear", INVALID_INDEX, None)
         /\ UNCHANGED << entries, next_vacant_idx, non_optimized_count, len,
                         capacity, iter, panicked >>

\* SmallSlabMap::optimize
SmallOptimize ==
    IF is_heap THEN Optimize
    ELSE /\ Ready
         /\ last' = Op("optimize", INVALID_INDEX, None)
         /\ UNCHANGED << entries, next_vacant_idx, non_optimized_count, len,
                         capacity, m, iter, panicked, small >>

\* SmallSlabMap::reserve
SmallReserve(additional) ==
    /\ Ready
    /\ IF try_reserve_inline(additional)
       THEN UNCHANGED << entries, next_vacant_idx, non_optimized_count, len,
                         capacity, panicked, small >>
       ELSE /\ Len(as_heap.entries)
                 + entries_additional_on(as_heap, additional) <= MaxCap
            /\ small' = SmallHeap(small)
            /\ entries' = as_heap.entries
            /\ next_vacant_idx' = as_heap.next_vacant_idx
            /\ non_optimized_count' = as_heap.non_optimized_count
            /\ len' = as_heap.len
            /\ capacity' \in try_reserve_capacities(additional)
            /\ panicked' = Small_into_iter.panic
    /\ last' = Op("reserve", INVALID_INDEX, None)
    /\ UNCHANGED << m, iter >>

\* SmallSlabMap::<_, N>::new() for the values of N of the property test
SmallInit ==
    /\ entries = << >>
    /\ next_vacant_idx = INVALID_INDEX
    /\ len = 0
    /\ non_optimized_count = 0
    /\ capacity = 0
    /\ m = EmptyMap
    /\ iter = NoIter
    /\ last = Op("new", INVALID_INDEX, None)
    /\ panicked = FALSE
    /\ small \in {SmallNew(N) : N \in InlineCapacities}

\* The actions of the property test
SmallNext ==
    \/ \E v \in Values : SmallInsert(v)
    \/ \E key \in Keys : SmallRemove(key)
    \/ SmallClear
    \/ SmallOptimize
    \/ \E additional \in 0 .. MaxReserve : SmallReserve(additional)

SpecSmall == SmallInit /\ [][SmallNext]_vars

\* The `for item in items` loop of the Data::Inline arm of
\* SmallSlabMap::retain from item i on, the predicate f answering true on
\* the keys of keep: f is called with len_new, the number of items kept
\* so far. calls lists the keys f was called with.
RECURSIVE Inline_retain_loop(_, _, _, _, _)
Inline_retain_loop(items, i, len_new, keep, calls) ==
    IF i >= Len(items)
    THEN [items |-> items, len_new |-> len_new, calls |-> calls]
    ELSE IF At(items, i) = None
    THEN Inline_retain_loop(items, i + 1, len_new, keep, calls)
    ELSE IF len_new \in keep
    THEN Inline_retain_loop(items, i + 1, len_new + 1, keep,
                            Append(calls, len_new))
    ELSE Inline_retain_loop(SetAt(items, i, None), i + 1, len_new, keep,
                            Append(calls, len_new))

\* The Data::Inline arm of SmallSlabMap::retain on the value s
Inline_retain(s, keep) ==
    LET r == Inline_retain_loop(s.items, 0, 0, keep, << >>) IN
    [calls |-> r.calls,
     small |-> [s EXCEPT !.items = r.items,
                         !.len = r.len_new % (U8_MAX + 1)]]

\* The keys SmallSlabMap::retain calls its predicate with
Small_retain_calls(keep) ==
    IF is_heap THEN merge_vacants(entries, keep \cap OccupiedKeys(entries)).calls
    ELSE Inline_retain(as_data(small), keep).calls

\* SmallSlabMap::retain with a predicate that answers true on the keys of
\* keep; the reference map keeps the entries whose keys it accepts.
SmallRetain(keep) ==
    IF is_heap THEN keep \subseteq OccupiedKeys(entries) /\ Retain(keep)
    ELSE /\ Ready
         /\ keep \subseteq 0 .. small.N - 1
         /\ small' = Inline_retain(as_data(small), keep).small
         /\ m' = Restrict(m, keep)
         /\ last' = Op("retain", INVALID_INDEX, None)
         /\ UNCHANGED << entries, next_vacant_idx, non_optimized_count, len,
                         capacity, iter, panicked >>

\* The values of N the retain of a SmallSlabMap is run with
RetainCapacities == {1, 2}

SmallRetainInit ==
    /\ entries = << >>
    /\ next_vacant_idx = INVALID_INDEX
    /\ len = 0
    /\ non_optimized_count = 0
    /\ capacity = 0
    /\ m = EmptyMap
    /\ iter = NoIter
    /\ last = Op("new", INVALID_INDEX, None)
    /\ panicked = FALSE
    /\ small \in {SmallNew(N) : N \in RetainCapacities}

SmallRetainNext ==
    \/ \E v \in Values : SmallInsert(v)
    \/ \E key \in Keys : SmallRemove(key)
    \/ \E keep \in SUBSET (0 .. MaxSlots - 1) : SmallRetain(keep)

SpecSmallRetain == SmallRetainInit /\ [][SmallRetainNext]_vars

\* ================================================================ claims
VacantKeys(es) == (0 .. Len(es) - 1) \ OccupiedKeys(es)
SeqToSet(q) == {q[i] : i \in 1 .. Len(q)}
HasTag(es, tag) == \E i \in 0 .. Len(es) - 1 : At(es, i).tag = tag
Min(S) == CHOOSE x \in S : \A y \in S : x <= y

\* ---------------------------------------------------------------- C1
\* C1: the set of (key, value) pairs iter() yields equals the entries of the
\* reference map kept in step, and remove(k) returns for every key k what
\* the reference map's remove(k) returns.
C1_Refinement ==
    ~panicked =>
      /\ SeqToSet(Collect(NewIter("iter", entries, len)))
           = {<< k, m[k] >> : k \in DOMAIN m}
      /\ \A k \in Keys : RemoveResult(k).ret = MapGet(m, k)

\* A remove has returned a value and left a map that still holds values
\* next to vacant slots.
C1_Witness ==
    /\ last.op = "remove" /\ last.some
    /\ len > 0 /\ Len(entries) > len
    /\ DOMAIN m = OccupiedKeys(entries)

\* ---------------------------------------------------------------- C2
\* get(k) after the step is what it was before
Same(k) == get(k)' = get(k)

\* C2: key stability: a step leaves get(k) as it was for every key k that
\* holds a value, unless the step is remove(j), and then for every k but j,
\* or clear, drain or into_iter, or a retain, and then for every k its
\* predicate accepted (the keys that are Occupied after it).
C2_KeyStability ==
    [][\/ \A k \in OccupiedKeys(entries) : Same(k)
       \/ /\ last'.op = "remove"
          /\ Remove(last'.key)
          /\ \A k \in OccupiedKeys(entries) \ {last'.key} : Same(k)
       \/ (last'.op = "clear" /\ Clear)
       \/ (last'.op = "drain" /\ Drain)
       \/ (last'.op = "into_iter" /\ IntoIter)
       \/ /\ last'.op = "retain"
          /\ Retain(OccupiedKeys(entries'))
          /\ \A k \in OccupiedKeys(entries) \cap OccupiedKeys(entries') :
               Same(k)]_vars

\* An optimize has rewritten the vacant slots of a map that holds values
\* into a VacantHead run.
C2_Witness ==
    /\ last.op = "optimize"
    /\ len >= 2
    /\ HasTag(entries, "VacantHead")

\* ---------------------------------------------------------------- C3
\* C3: reuse policy: insert returns the index in next_vacant_idx when the
\* free list is nonempty, and the length of the slot array when it is empty.
C3_ReusePolicy ==
    ~panicked =>
      \A v \in Values :
        /\ ~InsertResult(v).panic
        /\ InsertResult(v).idx =
             IF next_vacant_idx # INVALID_INDEX THEN next_vacant_idx
             ELSE Len(entries)

\* insert, insert, insert, remove(1), insert: the last insert returned 1
C3_Witness ==
    /\ last.op = "insert" /\ last.key = 1
    /\ Len(entries) = 3 /\ len = 3

\* ---------------------------------------------------------------- C4
\* C4 as stated: whenever a vacant slot exists, insert returns the smallest
\* vacant index.
C4_SmallestVacant ==
    (~panicked /\ VacantKeys(entries) # {}) =>
      \A v \in Values : InsertResult(v).idx = Min(VacantKeys(entries))

\* C4 amended: whenever a vacant slot exists, insert reuses the slot at the
\* head of the free list, and in compacted form (non_optimized_count = 0)
\* that slot is the smallest vacant index.
C4_SmallestVacantWhenOptimized ==
    (~panicked /\ VacantKeys(entries) # {}) =>
      \A v \in Values :
        /\ InsertResult(v).idx = next_vacant_idx
        /\ InsertResult(v).idx \in VacantKeys(entries)
        /\ (non_optimized_count = 0 =>
              InsertResult(v).idx = Min(VacantKeys(entries)))

\* A compacted map with two vacant runs
C4_Witness ==
    /\ ~panicked
    /\ non_optimized_count = 0
    /\ Cardinality(VacantKeys(entries)) >= 2
    /\ \E k \in OccupiedKeys(entries) :
         /\ \E i \in VacantKeys(entries) : i < k
         /\ \E i \in VacantKeys(entries) : i > k

C6_TailOccupied ==
    ~panicked => (entries = << >> \/ IsOccupied(entries[Len(entries)]))

\* ---------------------------------------------------------------- C7
\* The walk of the free list of the slot array es from index p, seen being
\* the slots of the runs walked so far: whether it ends at INVALID_INDEX
\* without leaving the array, reaching an Occupied slot or a slot it has
\* seen, and the slots of the runs it visited.
RECURSIVE FreeListWalk(_, _, _)
FreeListWalk(es, p, seen) ==
    IF p = INVALID_INDEX THEN [ok |-> TRUE, slots |-> seen]
    ELSE IF p >= Len(es) THEN [ok |-> FALSE, slots |-> seen]
    ELSE LET e == At(es, p)
             t == p + e.vacant_body_len + 1
         IN CASE e.tag = "Occupied" -> [ok |-> FALSE, slots |-> seen]
              [] e.tag = "VacantTail" ->
                   IF p \in seen THEN [ok |-> FALSE, slots |-> seen]
                   ELSE FreeListWalk(es, e.next_vacant_idx, seen \cup {p})
              [] e.tag = "VacantHead" ->
                   IF \/ t >= Len(es)
                      \/ At(es, t).tag # "VacantTail"
                      \/ (p .. t) \cap seen # {}
                      \/ (p .. t) \cap OccupiedKeys(es) # {}
                   THEN [ok |-> FALSE, slots |-> seen]
                   ELSE FreeListWalk(es, At(es, t).next_vacant_idx,
                                     seen \cup (p .. t))

\* C7: the free list, walked from next_vacant_idx through each run's
\* VacantTail, visits every vacant slot's run exactly once and ends at
\* INVALID_INDEX; when len equals the slot-array length the list is empty.
C7_FreeList ==
    ~panicked =>
      /\ FreeListWalk(entries, next_vacant_idx, {}).ok
      /\ FreeListWalk(entries, next_vacant_idx, {}).slots = VacantKeys(entries)
      /\ (len = Len(entries) => next_vacant_idx = INVALID_INDEX)

\* A free list of two runs, one of them a VacantHead run, in a map that is
\* not in compacted form
C7_Witness ==
    /\ ~panicked
    /\ non_optimized_count > 0
    /\ HasTag(entries, "VacantHead")
    /\ next_vacant_idx # INVALID_INDEX
    /\ At(entries, next_vacant_idx).tag = "VacantTail"
    /\ At(entries, next_vacant_idx).next_vacant_idx # INVALID_INDEX

\* ---------------------------------------------------------------- C8
\* C8: optimize(); optimize() leaves the state of a single optimize(), the
\* second call changes no slot and no field, and non_optimized_count is 0
\* after optimize().
C8_OptimizeIdempotent ==
    ~panicked =>
      /\ optimize(Self).non_optimized_count = 0
      /\ optimize(optimize(Self)) = optimize(Self)
      /\ (last.op = "optimize" => optimize(Self) = Self)

\* An optimize has compacted a map: it holds a VacantHead run
C8_Witness ==
    /\ last.op = "optimize"
    /\ non_optimized_count = 0
    /\ HasTag(entries, "VacantHead")
    /\ len > 0

\* ---------------------------------------------------------------- C9
\* C9: iter() and iter_mut() report the size hint (len, Some(len)); after y
\* items the remaining count is len - y, and the iterator yields exactly
\* len items.
C9_SizeHint ==
    (~panicked /\ iter.kind \in {"iter", "iter_mut"}) =>
      /\ size_hint(iter) = << len - Len(iter.out), Some(len - Len(iter.out)) >>
      /\ Len(iter.out) <= len
      /\ (iter.done => Len(iter.out) = len)

\* An iter_mut() over a map with vacant slots has yielded one item of three
C9_Witness ==
    /\ iter.kind = "iter_mut"
    /\ Len(iter.out) = 1
    /\ iter.len = 2
    /\ Len(entries) > len

\* ---------------------------------------------------------------- C10
\* The Occupied slots of es from index i on, as (key, value) pairs in
\* ascending key order
RECURSIVE OccupiedPairs(_, _)
OccupiedPairs(es, i) ==
    IF i >= Len(es) THEN << >>
    ELSE IF IsOccupied(At(es, i))
         THEN << << i, At(es, i).value >> >> \o OccupiedPairs(es, i + 1)
         ELSE OccupiedPairs(es, i + 1)

\* C10: iter(), iter_mut(), into_iter() and drain() yield the same sequence:
\* every Occupied slot once, in ascending key order. What an iterator of
\* any kind has yielded is a prefix of that sequence, and all of it once
\* next() has returned None.
C10_IterOrder ==
    (~panicked /\ iter.kind # "none") =>
      /\ Len(iter.out) <= Len(OccupiedPairs(iter.es, 0))
      /\ iter.out = SubSeq(OccupiedPairs(iter.es, 0), 1, Len(iter.out))
      /\ (iter.done => iter.out = OccupiedPairs(iter.es, 0))

\* A drain() has been consumed: it walked over a VacantHead run and yielded
\* the two values around it
C10_Witness ==
    /\ iter.kind = "drain"
    /\ iter.done
    /\ Len(iter.out) = 2
    /\ HasTag(iter.es, "VacantHead")

\* ---------------------------------------------------------------- C11
\* The keys of the pairs of q, in the order of q
KeysOf(q) == [i \in 1 .. Len(q) |-> q[i][1]]
StrictlyIncreasing(q) == \A i \in 1 .. Len(q) - 1 : q[i] < q[i + 1]

\* C11: in every reachable state the keys iter() yields are strictly
\* increasing, and so are the keys a live iter() has yielded so far.
C11_IterKeysIncreasing ==
    ~panicked =>
      /\ StrictlyIncreasing(KeysOf(Collect(NewIter("iter", entries, len))))
      /\ (iter.kind = "iter" => StrictlyIncreasing(KeysOf(iter.out)))

\* An iter() has been consumed over a map that is not in compacted form:
\* it yielded three keys with a vacant slot between them
C11_Witness ==
    /\ iter.kind = "iter" /\ iter.done
    /\ Len(iter.out) = 3
    /\ Len(entries) = 4
    /\ non_optimized_count > 0

\* ---------------------------------------------------------------- C12
\* C12: remove(key) on a key that is out of range or whose slot is vacant
\* returns None and leaves entries, next_vacant_idx, len and
\* non_optimized_count unchanged; a remove of the key a successful remove
\* has just removed returns None.
C12_RemoveAbsent ==
    [][\A key \in Keys :
         /\ (get(key) = None /\ Remove(key)) =>
               /\ ~panicked'
               /\ last' = Op("remove", key, None)
               /\ UNCHANGED << entries, next_vacant_idx, len,
                               non_optimized_count >>
         /\ (last = Op("remove", key, Some(0)) /\ Remove(key)) =>
               last' = Op("remove", key, None)]_vars

\* ---------------------------------------------------------------- C13
\* C13: get, contains_key and remove accept every key, usize::MAX included:
\* get answers None or Some value, contains_key answers a Boolean, and no
\* remove panics, whatever key + 1 comes to.
C13_AnyKeyAccepted ==
    [][\A key \in Keys :
         /\ get(key) \in {None} \cup {Some(v) : v \in Values}
         /\ contains_key(key) \in BOOLEAN
         /\ Remove(key) => ~panicked']_vars

\* ---------------------------------------------------------------- C14
\* C14: for every key k, contains_key(k) is true iff get(k) is Some value
\* iff slot k exists and is Occupied (iff the reference map holds k); s[k]
\* is the value of get(k) when there is one and panics when k is vacant or
\* out of range, and so does the mutable index.
C14_LookupsAgree ==
    ~panicked =>
      \A k \in Keys :
        /\ contains_key(k) <=> (get(k) # None)
        /\ (get(k) # None) <=> (k < Len(entries) /\ IsOccupied(At(entries, k)))
        /\ (get(k) # None) <=> (k \in DOMAIN m)
        /\ get_mut(k) = get(k)
        /\ IF get(k) # None
           THEN /\ ~index(k).panic /\ index(k).value = get(k)
                /\ ~index_mut(k).panic /\ index_mut(k).value = get(k)
           ELSE index(k).panic /\ index_mut(k).panic

\* A map holding a value beyond a vacant slot: indexing the one returns the
\* value, indexing the other or a key past the end panics
C14_Witness ==
    /\ ~panicked
    /\ Len(entries) = 3
    /\ ~contains_key(1) /\ index(1).panic
    /\ contains_key(2) /\ index(2).value = Some(MaxValue)
    /\ index(3).panic /\ index(INVALID_INDEX).panic

\* ---------------------------------------------------------------- C15
\* C15: in every reachable state and for every k, whatever capacity
\* reserve(k) leaves is at least len + k, although the slot array is asked
\* for only k minus the number of vacant slots, or for nothing when there
\* are at least k of them.
C15_ReserveCapacity ==
    ~panicked =>
      /\ capacity >= Len(entries)
      /\ \A k \in 0 .. MaxCap :
           /\ entries_additional(k) =
                IF k >= Len(entries) - len THEN k - (Len(entries) - len)
                ELSE 0
           /\ \A c \in VecReserve(Len(entries), capacity,
                                   entries_additional(k)) : c >= len + k

\* reserve(1) on a full slot array of three slots, one of them vacant: the
\* vacant slot is the room asked for, and the capacity stays 3
C15_Witness ==
    /\ last.op = "reserve"
    /\ Len(entries) = 3 /\ len = 2
    /\ capacity = 3

\* ---------------------------------------------------------------- C16
\* C16: in a map built by insert, remove, clear, optimize, retain and drain
\* the slot array grows only by an insert that finds no vacant slot, one
\* slot at a time, so that it is full after every step that grew it: its
\* length is len at that moment and never exceeds the largest len reached.
\* The capacity changes only when such an insert finds the array filled to
\* capacity (or by reserve): inserts that follow removes reuse the vacated
\* or popped slots and leave the capacity as it was.
C16_GrowsOnlyWhenFull ==
    [][/\ last'.op # "from_iter" =>
            \/ Len(entries') <= Len(entries)
            \/ /\ last'.op = "insert"
               /\ VacantKeys(entries) = {}
               /\ Len(entries') = Len(entries) + 1
               /\ Len(entries') = len'
       /\ last'.op \notin {"from_iter", "into_iter", "reserve"} =>
            \/ capacity' = capacity
            \/ /\ last'.op = "insert"
               /\ Len(entries) = capacity
               /\ Len(entries') = Len(entries) + 1]_vars

\* Three inserts filled the capacity, key 0 was removed and an insert took
\* its slot again: three slots, capacity 3
C16_Witness ==
    /\ last.op = "insert" /\ last.key = 0
    /\ Len(entries) = 3 /\ len = 3
    /\ capacity = 3

\* ---------------------------------------------------------------- C17
\* C17: retain(p) keeps exactly the entries p accepted, each under its key
\* and with its value, in the same ascending order, and drops the others;
\* len is the number kept and non_optimized_count is 0; the next insert
\* returns the smallest key retain vacated, if it left a vacant slot. The
\* reference map holds what p accepted of the entries before the retain.
C17_Retain ==
    (~panicked /\ last.op = "retain") =>
      /\ OccupiedKeys(entries) = DOMAIN m
      /\ \A k \in DOMAIN m : get(k) = Some(m[k])
      /\ Collect(NewIter("iter", entries, len)) = OccupiedPairs(entries, 0)
      /\ len = Cardinality(DOMAIN m)
      /\ non_optimized_count = 0
      /\ VacantKeys(entries) # {} =>
           \A v \in Values : InsertResult(v).idx = Min(VacantKeys(entries))

\* retain of the even keys of 0 .. 3: keys 0 and 2 are left, the slot of
\* key 3 is cut off and the next insert returns 1
C17_Witness ==
    /\ last.op = "retain"
    /\ DOMAIN m = {0, 2}
    /\ Len(entries) = 3
    /\ next_vacant_idx = 1
    /\ InsertResult(MaxValue).idx = 1

\* ---------------------------------------------------------------- C18
\* C18: from the call of drain() on, while the Drain iterator lives and
\* after it was consumed or dropped with none, some or all of its items
\* taken, the map is empty: len 0, next_vacant_idx INVALID_INDEX,
\* non_optimized_count 0, no slots; a following insert returns key 0.
C18_DrainEmpties ==
    (~panicked /\ last.op = "drain") =>
      /\ len = 0 /\ is_empty
      /\ next_vacant_idx = INVALID_INDEX
      /\ non_optimized_count = 0
      /\ entries = << >>
      /\ m = EmptyMap
      /\ \A v \in Values :
           ~InsertResult(v).panic /\ InsertResult(v).idx = 0
      /\ iter.kind \in {"none", "drain"}

\* A drain() of a map with a vacant slot among three has yielded one of
\* its two items and has not yet been dropped
C18_Witness ==
    /\ last.op = "drain"
    /\ iter.kind = "drain" /\ ~iter.done
    /\ Len(iter.out) = 1 /\ iter.len = 1
    /\ Len(iter.es) = 3 /\ HasTag(iter.es, "VacantTail")

\* ---------------------------------------------------------------- C19
\* The fields of SlabMap::new()
Fresh == Fields(<< >>, INVALID_INDEX, 0, 0)

\* C19: clear() leaves the fields of a freshly constructed map, whatever
\* the capacity: no slots, next_vacant_idx INVALID_INDEX, len 0,
\* non_optimized_count 0; is_empty() is true and the next insert returns 0.
C19_ClearIsFresh ==
    (~panicked /\ last.op = "clear") =>
      /\ Self = Fresh
      /\ is_empty
      /\ m = EmptyMap
      /\ \A k \in Keys : get(k) = None
      /\ \A v \in Values :
           ~InsertResult(v).panic /\ InsertResult(v).idx = 0

\* A clear() of a map whose slot array had grown to MaxSlots slots
C19_Witness ==
    /\ last.op = "clear"
    /\ entries = << >>
    /\ capacity >= MaxSlots

\* ---------------------------------------------------------------- C20
\* C20: a remove that takes the last value of the map, whatever key it is
\* and whatever vacant slots and free-list entries the map holds, leaves
\* the fields of a freshly constructed map.
C20_RemoveLastIsFresh ==
    ~panicked =>
      /\ \A key \in Keys :
           (RemoveResult(key).ret # None /\ len = 1) =>
             /\ RemoveResult(key).entries = << >>
             /\ RemoveResult(key).next_vacant_idx = INVALID_INDEX
             /\ RemoveResult(key).non_optimized_count = 0
             /\ RemoveResult(key).len = 0
      /\ (last.op = "remove" /\ last.some /\ len = 0) =>
           Self = Fresh /\ m = EmptyMap

\* remove(1) took the last value of a map: slot 0 before it was vacant
C20_Witness ==
    /\ last = Op("remove", 1, Some(0))
    /\ len = 0
    /\ entries = << >>

\* ---------------------------------------------------------------- C21
\* Closures whose value depends on the key they are given
KeyFns ==
    {[key \in 0 .. MaxSlots |-> 1 + ((key + c) % MaxValue)] :
       c \in 0 .. MaxValue - 1}

\* C21: insert_with_key(f) calls f exactly once, with the key it returns,
\* and stores f's value under that key, leaving every other value where it
\* was, on the path that reuses a vacant slot and on the path that appends.
C21_InsertWithKey ==
    ~panicked =>
      \A f \in KeyFns :
        /\ ~insert_with_key(f).panic
        /\ insert_with_key(f).calls = << insert_with_key(f).idx >>
        /\ insert_with_key(f).idx \notin OccupiedKeys(entries)
        /\ At(insert_with_key(f).entries, insert_with_key(f).idx)
             = Occupied(f[insert_with_key(f).idx])
        /\ OccupiedKeys(insert_with_key(f).entries)
             = OccupiedKeys(entries) \cup {insert_with_key(f).idx}
        /\ \A k \in OccupiedKeys(entries) :
             At(insert_with_key(f).entries, k) = At(entries, k)
        /\ insert_with_key(f).len = len + 1

\* An insert has taken the first slot of a vacant run of three: the rest
\* of the run is a VacantHead run again, and key 0 holds the value
C21_Witness ==
    /\ last.op = "insert" /\ last.key = 0
    /\ Len(entries) = 4
    /\ At(entries, 1).tag = "VacantHead"
    /\ get(0) = Some(MaxValue)

\* ---------------------------------------------------------------- C22
\* BTreeMap::into_iter: the entries of the map f with keys from i on, in
\* ascending key order
RECURSIVE MapEntries(_, _)
MapEntries(f, i) ==
    IF i > MaxSlots THEN << >>
    ELSE IF i \in DOMAIN f
         THEN << << i, f[i] >> >> \o MapEntries(f, i + 1)
         ELSE MapEntries(f, i + 1)

\* C22: the map from_iter builds from a sequence of pairs, in any key
\* order and with repeated keys, yields through into_iter exactly the
\* entries of the ordered reference map built from the same sequence, in
\* ascending key order, and its len is the number of distinct keys.
C22_FromIter ==
    (~panicked /\ last.op = "from_iter") =>
      /\ Collect(NewIter("into_iter", entries, len)) = MapEntries(m, 0)
      /\ len = Cardinality(DOMAIN m)
      /\ \A k \in Keys : get(k) = MapGet(m, k)

\* from_iter of pairs with the keys 2 and 0: three slots, the middle one
\* vacant and on the free list
C22_Witness ==
    /\ last.op = "from_iter"
    /\ DOMAIN m = {0, 2}
    /\ m[0] # m[2]
    /\ Len(entries) = 3
    /\ next_vacant_idx = 1

\* ---------------------------------------------------------------- C23
\* The vacant slots of es in the order successive inserts take them: the
\* free list from index p, each VacantHead run from its head to its
\* VacantTail. fuel bounds the walk by the number of slots.
RECURSIVE FreeOrder(_, _, _)
FreeOrder(es, p, fuel) ==
    IF p >= Len(es) \/ fuel = 0 THEN << >>
    ELSE LET e == At(es, p) IN
         CASE e.tag = "Occupied" -> << >>
           [] e.tag = "VacantTail" ->
                << p >> \o FreeOrder(es, e.next_vacant_idx, fuel - 1)
           [] e.tag = "VacantHead" ->
                << p >> \o FreeOrder(IF e.vacant_body_len > 0
                                     THEN SetAt(es, p + 1,
                                            VacantHead(e.vacant_body_len - 1))
                                     ELSE es,
                                     p + 1, fuel - 1)

\* C23: in compacted form, as optimize() and retain leave it, the free
\* list is in ascending positional order: an insert takes the first slot
\* of the order and leaves the rest of it, so that successive inserts
\* return the vacant keys in strictly ascending order, stay in compacted
\* form, and append only when no vacant slot is left.
C23_AscendingReuse ==
    ~panicked =>
      /\ \A v \in Values :
           IF FreeOrder(entries, next_vacant_idx, Len(entries)) # << >>
           THEN /\ InsertResult(v).idx =
                     Head(FreeOrder(entries, next_vacant_idx, Len(entries)))
                /\ FreeOrder(InsertResult(v).entries,
                             InsertResult(v).next_vacant_idx, Len(entries))
                     = Tail(FreeOrder(entries, next_vacant_idx, Len(entries)))
                /\ Len(InsertResult(v).entries) = Len(entries)
           ELSE /\ InsertResult(v).idx = Len(entries)
                /\ Len(InsertResult(v).entries) = Len(entries) + 1
      /\ non_optimized_count = 0 =>
           /\ StrictlyIncreasing(FreeOrder(entries, next_vacant_idx,
                                           Len(entries)))
           /\ SeqToSet(FreeOrder(entries, next_vacant_idx, Len(entries)))
                = VacantKeys(entries)
           /\ \A v \in Values : InsertResult(v).non_optimized_count = 0
      /\ last.op \in {"optimize", "retain"} => non_optimized_count = 0

\* Keys 0 .. 3 with 1 and 2 removed and the map optimized: an insert has
\* returned 1 and the next one returns 2
C23_Witness ==
    /\ last.op = "insert" /\ last.key = 1
    /\ non_optimized_count = 0
    /\ Len(entries) = 4 /\ len = 3
    /\ next_vacant_idx = 2
    /\ InsertResult(MaxValue).idx = 2

\* ---------------------------------------------------------------- C24
\* Scenario S4 with MaxSlots values: insert 0 .. MaxSlots - 1, remove every
\* key but the last, optimize(). The state it ends in is one where an
\* optimize() has left a map whose only key is MaxSlots - 1.
AfterS4 ==
    /\ ~panicked
    /\ last.op = "optimize"
    /\ DOMAIN m = {MaxSlots - 1}

\* C24 as stated: after S4 the slot array has length 1, its sole slot is
\* Occupied, next_vacant_idx is INVALID_INDEX and non_optimized_count is 0.
C24_S4 ==
    AfterS4 =>
      /\ Len(entries) = 1
      /\ IsOccupied(At(entries, 0))
      /\ next_vacant_idx = INVALID_INDEX
      /\ non_optimized_count = 0

\* C24 amended: after S4 the slot array keeps its MaxSlots slots: the last
\* one is Occupied with the value inserted under that key, the slots
\* before it are one vacant run (VacantHead at slot 0, VacantTail ending
\* the free list at slot MaxSlots - 2), next_vacant_idx is 0, len is 1 and
\* non_optimized_count is 0.
C24_S4KeepsSlots ==
    AfterS4 =>
      /\ Len(entries) = MaxSlots
      /\ At(entries, MaxSlots - 1) = Occupied(m[MaxSlots - 1])
      /\ At(entries, 0) = VacantHead(MaxSlots - 3)
      /\ At(entries, MaxSlots - 2) = VacantTail(INVALID_INDEX)
      /\ VacantKeys(entries) = 0 .. MaxSlots - 2
      /\ next_vacant_idx = 0
      /\ len = 1
      /\ non_optimized_count = 0
      /\ Collect(NewIter("iter", entries, len))
           = << << MaxSlots - 1, m[MaxSlots - 1] >> >>

\* S4 has run: the slots before the last still carry the links the
\* removes of keys 0, 1, ... wrote, under the run optimize() built
C24_Witness ==
    /\ AfterS4
    /\ Len(entries) = MaxSlots
    /\ At(entries, 0).tag = "VacantHead"
    /\ At(entries, 1) = VacantTail(0)

\* ---------------------------------------------------------------- C25
\* C25: when the predicate of retain panics part-way through the pass, the
\* map is left valid: len is the number of Occupied slots and the free
\* list visits every vacant run, or else the map is cleared.
C25_RetainUnwindValid ==
    ~panicked =>
      \A panic_at \in OccupiedKeys(entries) :
        \A keep \in SUBSET OccupiedKeys(entries) :
          \/ retain_unwind(keep, panic_at) = Fields(<< >>, INVALID_INDEX, 0, 0)
          \/ /\ retain_unwind(keep, panic_at).len
                  = Cardinality(OccupiedKeys(retain_unwind(keep, panic_at).entries))
             /\ FreeListWalk(retain_unwind(keep, panic_at).entries,
                             retain_unwind(keep, panic_at).next_vacant_idx,
                             {}).ok
             /\ FreeListWalk(retain_unwind(keep, panic_at).entries,
                             retain_unwind(keep, panic_at).next_vacant_idx,
                             {}).slots
                  = VacantKeys(retain_unwind(keep, panic_at).entries)

\* ---------------------------------------------------------------- C28
\* The len scenario of the example program has run: two values were
\* inserted into an empty map under keys 0 and 1, key 0 was removed and
\* the remove of key 1 has taken the last value out of the map.
AfterExampleLen ==
    /\ ~panicked
    /\ last.op = "remove" /\ last.key = 1 /\ last.some
    /\ m = EmptyMap

\* C28: in the example program's len scenario, after inserting two values
\* into an empty map and then removing both keys, len() returns 2.
C28_ExampleLen ==
    AfterExampleLen => len = 2

\* ---------------------------------------------------------------- C29
\* The vacant runs of the slot array es as the free list encodes them,
\* walked from index p: each run as << first slot, last slot >>. A
\* VacantTail reached directly is a run of one slot, a VacantHead with
\* body length b is a run of b + 2 slots ending in a VacantTail. fuel
\* bounds the walk by the number of slots.
RECURSIVE FreeRuns(_, _, _)
FreeRuns(es, p, fuel) ==
    IF p >= Len(es) \/ fuel = 0 THEN << >>
    ELSE LET e == At(es, p) IN
         CASE e.tag = "Occupied" -> << >>
           [] e.tag = "VacantTail" ->
                << << p, p >> >> \o FreeRuns(es, e.next_vacant_idx, fuel - 1)
           [] e.tag = "VacantHead" ->
                LET t == p + e.vacant_body_len + 1 IN
                << << p, t >> >> \o
                  (IF t < Len(es) /\ At(es, t).tag = "VacantTail"
                   THEN FreeRuns(es, At(es, t).next_vacant_idx, fuel - 1)
                   ELSE << >>)

\* The total length of the runs
RECURSIVE RunTotal(_)
RunTotal(runs) ==
    IF runs = << >> THEN 0
    ELSE (Head(runs)[2] - Head(runs)[1] + 1) + RunTotal(Tail(runs))

\* C29: after every operation that returns, the length of the slot array
\* is len plus the total length of the vacant runs reachable through the
\* free list, and every slot is Occupied or lies on one of these runs.
C29_SlotsAccounted ==
    ~panicked =>
      LET runs == FreeRuns(entries, next_vacant_idx, Len(entries)) IN
      /\ Len(entries) = len + RunTotal(runs)
      /\ \A i \in 0 .. Len(entries) - 1 :
           \/ IsOccupied(At(entries, i))
           \/ \E j \in 1 .. Len(runs) : runs[j][1] <= i /\ i <= runs[j][2]

\* Keys 0 .. 3 with 0 and 1 removed, the map optimized and key 2 removed:
\* the free list holds a run of one slot and then a run of two
C29_Witness ==
    /\ last.op = "remove" /\ last.key = 2
    /\ len = 1 /\ Len(entries) = 4
    /\ FreeRuns(entries, next_vacant_idx, Len(entries))
         = << << 2, 2 >>, << 0, 1 >> >>

\* ---------------------------------------------------------------- C30
\* C30: non_optimized_count = 0 detects compacted form: whenever it is 0
\* every run the free list encodes is maximal (the slot before its first
\* slot and the slot after its last slot are Occupied or outside the
\* array) and the free list visits the runs in ascending positional
\* order; it is 0 after optimize, retain, clear and drain.
C30_ZeroCountIsCompacted ==
    ~panicked =>
      LET runs == FreeRuns(entries, next_vacant_idx, Len(entries)) IN
      /\ non_optimized_count = 0 =>
           /\ \A j \in 1 .. Len(runs) :
                /\ runs[j][1] = 0 \/ IsOccupied(At(entries, runs[j][1] - 1))
                /\ \/ runs[j][2] = Len(entries) - 1
                   \/ IsOccupied(At(entries, runs[j][2] + 1))
           /\ \A j \in 1 .. Len(runs) - 1 : runs[j][2] < runs[j + 1][1]
      /\ last.op \in {"optimize", "retain", "clear", "drain"} =>
           non_optimized_count = 0

\* A compacted map with vacant slots 0 and 2 had key 1 removed and
\* inserted again: the insert brought non_optimized_count back to 0 over
\* two runs
C30_Witness ==
    /\ last.op = "insert" /\ last.key = 1
    /\ non_optimized_count = 0
    /\ len = 2 /\ Len(entries) = 4
    /\ FreeRuns(entries, next_vacant_idx, Len(entries))
         = << << 0, 0 >>, << 2, 2 >> >>

\* ---------------------------------------------------------------- C26
\* C26: SmallSlabMap<_, N> refines the reference map: after every step of
\* insert, remove, clear, optimize and reserve from the empty map, iter()
\* yields the entries of the reference map, remove(k) returns for every
\* key k what the reference map's remove(k) returns, and whatever
\* capacity reserve(k) leaves is at least len() + k; this holds across the
\* move of the inline items to the heap, which keeps keys and values.
C26_SmallRefinement ==
    ~panicked =>
      /\ ~Small_iter.panic
      /\ SeqToSet(Small_iter.out) = {<< k, m[k] >> : k \in DOMAIN m}
      /\ Small_len = Cardinality(DOMAIN m)
      /\ \A k \in Keys : Small_remove_ret(k) = MapGet(m, k)
      /\ \A k \in 0 .. MaxCap :
           \A c \in try_reserve_capacities(k) : c >= Small_len + k
      /\ (last.op = "reserve" => Small_capacity >= Small_len)

\* A SmallSlabMap<_, 1> held one value inline under key 0; the insert of a
\* different value moved it to the heap and returned key 1
C26_Witness ==
    /\ small.N = 1 /\ is_heap
    /\ last.op = "insert" /\ last.key = 1
    /\ Len(entries) = 2 /\ len = 2
    /\ DOMAIN m = {0, 1}
    /\ m[0] # m[1]
    /\ capacity = 2

\* ---------------------------------------------------------------- C27
\* C27: in every reachable state of a SmallSlabMap<_, N> that holds at
\* most N values, nothing is allocated on the heap and the values are
\* stored in the inline array.
C27_InlineWhenSmall ==
    (~panicked /\ Small_len <= small.N) => ~is_heap

\* ---------------------------------------------------------------- C31
\* C31 as stated: non_optimized_count is the number of removes minus the
\* number of inserts into vacant slots since the last compaction. Step by
\* step: a remove that takes a value adds 1, an insert that reuses a
\* vacant slot subtracts 1, and optimize, retain, clear and drain leave 0.
\* (A remove and an insert change the reference map; a step that reuses a
\* slot leaves the length of the slot array as it was.)
C31_ChurnCounts ==
    [][/\ (last'.op = "remove" /\ m' # m) =>
            non_optimized_count' = non_optimized_count + 1
       /\ (last'.op = "insert" /\ m' # m /\ Len(entries') = Len(entries)) =>
            non_optimized_count' = non_optimized_count - 1
       /\ last'.op \in {"optimize", "retain", "clear", "drain"} =>
            non_optimized_count' = 0]_vars

\* C31 amended: non_optimized_count is 0 after optimize, retain, clear,
\* drain, from_iter, into_iter and a remove that takes the last value of
\* the map; a remove that takes a value from a slot before the final one
\* adds 1 and one that pops the final slot adds nothing; an insert that
\* reuses a vacant slot subtracts 1 unless the count is 0 already, and an
\* insert that appends leaves it; no other step changes it. It never
\* exceeds the number of vacant slots.
C31_ChurnSteps ==
    [][/\ ~panicked' =>
            non_optimized_count' <= Cardinality(VacantKeys(entries'))
       /\ (last'.op = "remove" /\ m' # m) =>
            non_optimized_count' =
              IF len = 1 THEN 0
              ELSE IF last'.key + 1 = Len(entries) THEN non_optimized_count
              ELSE non_optimized_count + 1
       /\ (last'.op = "insert" /\ m' # m) =>
            non_optimized_count' =
              IF Len(entries') = Len(entries) /\ non_optimized_count > 0
              THEN non_optimized_count - 1
              ELSE IF Len(entries') = Len(entries) THEN 0
              ELSE non_optimized_count
       /\ last'.op \in {"optimize", "retain", "clear", "drain", "from_iter",
                        "into_iter"} =>
            non_optimized_count' = 0
       /\ (/\ last'.op \in {"remove", "insert", "panic", "reserve", "iter",
                            "iter_mut", "new"}
           /\ m' = m) =>
            non_optimized_count' = non_optimized_count]_vars

\* The final slot of a compacted map with a vacant slot before it was
\* removed: the count is still 0, one remove after the compaction
C31_Witness ==
    /\ last.op = "remove" /\ last.key = 3 /\ last.some
    /\ non_optimized_count = 0
    /\ Len(entries) = 3 /\ len = 2

\* ---------------------------------------------------------------- C32
\* C32: remove(key) of an Occupied slot that leaves len above 0: when key
\* is the final slot exactly that slot is popped and non_optimized_count,
\* next_vacant_idx and every other slot are as before; otherwise slot key
\* becomes VacantTail{next_vacant_idx: the old next_vacant_idx},
\* next_vacant_idx becomes key, non_optimized_count grows by 1 and no
\* other slot changes. Either way the value of the slot is returned and
\* len falls by 1.
C32_RemoveFrame ==
    ~panicked =>
      /\ \A key \in OccupiedKeys(entries) :
           len > 1 =>
             /\ RemoveResult(key).ret = Some(At(entries, key).value)
             /\ RemoveResult(key).len = len - 1
             /\ IF key + 1 = Len(entries)
                THEN /\ RemoveResult(key).entries
                          = SubSeq(entries, 1, Len(entries) - 1)
                     /\ RemoveResult(key).next_vacant_idx = next_vacant_idx
                     /\ RemoveResult(key).non_optimized_count
                          = non_optimized_count
                ELSE /\ Len(RemoveResult(key).entries) = Len(entries)
                     /\ \A i \in 0 .. Len(entries) - 1 :
                          At(RemoveResult(key).entries, i) =
                            IF i = key THEN VacantTail(next_vacant_idx)
                            ELSE At(entries, i)
                     /\ RemoveResult(key).next_vacant_idx = key
                     /\ RemoveResult(key).non_optimized_count
                          = non_optimized_count + 1
      /\ (last.op = "remove" /\ last.some /\ len > 0) =>
           \/ last.key = Len(entries)
           \/ /\ last.key < Len(entries)
              /\ At(entries, last.key).tag = "VacantTail"
              /\ next_vacant_idx = last.key
              /\ non_optimized_count > 0

\* Keys 2 and then 0 were removed from a map of four values: slot 0 heads
\* the free list and links to slot 2, the slot removed before it
C32_Witness ==
    /\ last.op = "remove" /\ last.key = 0 /\ last.some
    /\ Len(entries) = 4 /\ len = 2
    /\ At(entries, 0) = VacantTail(2)
    /\ At(entries, 2) = VacantTail(INVALID_INDEX)
    /\ next_vacant_idx = 0
    /\ non_optimized_count = 2

\* ---------------------------------------------------------------- C33
\* The slots the key-order walk of the iterators and of merge_vacants
\* reads in the slot array es from position pos: it steps over an Occupied
\* slot and a VacantTail by 1 and over a VacantHead by its body length + 2.
RECURSIVE KeyWalk(_, _)
KeyWalk(es, pos) ==
    IF pos >= Len(es) THEN {}
    ELSE {pos} \cup
         KeyWalk(es, IF At(es, pos).tag = "VacantHead"
                     THEN pos + At(es, pos).vacant_body_len + 2
                     ELSE pos + 1)

\* The slots next_vacant_idx and the VacantTail links lead to
FreeStarts(es, p) ==
    {FreeRuns(es, p, Len(es))[j][1] :
       j \in 1 .. Len(FreeRuns(es, p, Len(es)))}

\* C33: every VacantHead{vacant_body_len} at an index p that starts a run
\* (p is reached from next_vacant_idx, from a VacantTail's link or by the
\* key-order walk) has its VacantTail at p + vacant_body_len + 1 inside
\* the slot array and no Occupied slot from p to there; so the key-order
\* walk reads every Occupied slot, and lands after each VacantHead run on
\* the slot that follows the run's VacantTail.
C33_HeadReachesTail ==
    ~panicked =>
      /\ \A p \in KeyWalk(entries, 0) \cup FreeStarts(entries, next_vacant_idx) :
           At(entries, p).tag = "VacantHead" =>
             /\ p + At(entries, p).vacant_body_len + 1 < Len(entries)
             /\ At(entries, p + At(entries, p).vacant_body_len + 1).tag
                  = "VacantTail"
             /\ \A i \in p .. p + At(entries, p).vacant_body_len + 1 :
                  ~IsOccupied(At(entries, i))
      /\ OccupiedKeys(entries) \subseteq KeyWalk(entries, 0)
      /\ \A p \in FreeStarts(entries, next_vacant_idx) :
           p \in KeyWalk(entries, 0)

\* optimize() has merged slots 0 .. 2 into one run whose interior, slot 1,
\* still holds the VacantHead of an earlier run: no walk reads it
C33_Witness ==
    /\ last.op = "optimize"
    /\ Len(entries) = 4
    /\ At(entries, 0) = VacantHead(1)
    /\ At(entries, 1) = VacantHead(0)
    /\ At(entries, 2).tag = "VacantTail"
    /\ 1 \notin KeyWalk(entries, 0)

\* ---------------------------------------------------------------- C34
\* C34: an insert that finds a VacantHead{vacant_body_len} at the head h of
\* the free list returns h, stores the value there and moves
\* next_vacant_idx to h + 1; slot h + 1 becomes
\* VacantHead{vacant_body_len - 1} when vacant_body_len > 0 and stays the
\* run's VacantTail when it is 0; no other slot changes, so the free list
\* then starts with the run from h + 1 to the same VacantTail and goes on
\* to the same runs as before.
C34_InsertShrinksRun ==
    (/\ ~panicked
     /\ next_vacant_idx < Len(entries)
     /\ At(entries, next_vacant_idx).tag = "VacantHead") =>
      \A v \in Values :
        LET h == next_vacant_idx
            body == At(entries, next_vacant_idx).vacant_body_len
            runs == FreeRuns(entries, next_vacant_idx, Len(entries))
            r == InsertResult(v)
        IN /\ ~r.panic
           /\ r.idx = h
           /\ r.next_vacant_idx = h + 1
           /\ r.len = len + 1
           /\ Len(r.entries) = Len(entries)
           /\ \A i \in 0 .. Len(entries) - 1 :
                At(r.entries, i) =
                  IF i = h THEN Occupied(v)
                  ELSE IF i = h + 1 /\ body > 0 THEN VacantHead(body - 1)
                  ELSE At(entries, i)
           /\ At(r.entries, h + 1).tag =
                IF body > 0 THEN "VacantHead" ELSE "VacantTail"
           /\ Head(runs) = << h, h + body + 1 >>
           /\ FreeRuns(r.entries, r.next_vacant_idx, Len(entries))
                = << << h + 1, h + body + 1 >> >> \o Tail(runs)

\* An insert has taken slot 0 of the run of slots 0 .. 2: slot 1 now heads
\* the run of slots 1 .. 2, and the next insert finds a VacantHead again
C34_Witness ==
    /\ last.op = "insert" /\ last.key = 0
    /\ Len(entries) = 4 /\ len = 2
    /\ IsOccupied(At(entries, 0))
    /\ At(entries, 1) = VacantHead(0)
    /\ At(entries, 2) = VacantTail(INVALID_INDEX)
    /\ next_vacant_idx = 1
    /\ InsertResult(MaxValue).next_vacant_idx = 2

\* ---------------------------------------------------------------- C35
\* C35: after optimize() a full iteration over a map of n values reads at
\* most 2n + 1 slots: the key-order walk reads one slot for each value and
\* one for each vacant run, whose other slots it steps over.
C35_IterReads ==
    ~panicked =>
      /\ Cardinality(KeyWalk(optimize(Self).entries, 0))
           <= 2 * optimize(Self).len + 1
      /\ last.op = "optimize" =>
           /\ Cardinality(KeyWalk(entries, 0)) <= 2 * len + 1
           /\ KeyWalk(entries, 0) \cap VacantKeys(entries)
                = FreeStarts(entries, next_vacant_idx)

\* optimize() has merged the three vacant slots before the one value of
\* the map into a run: the iteration reads the run's head and the value
C35_Witness ==
    /\ last.op = "optimize"
    /\ Len(entries) = 4 /\ len = 1
    /\ At(entries, 1) = VacantTail(0)
    /\ KeyWalk(entries, 0) = {0, 3}

\* ---------------------------------------------------------------- C36
\* The slots strictly between the VacantHead and the VacantTail of the
\* runs of the slot array es
InteriorSlots(es) ==
    UNION {(p + 1) .. (p + At(es, p).vacant_body_len) :
             p \in {q \in KeyWalk(es, 0) : At(es, q).tag = "VacantHead"}}

\* Vacant slots to put into the interior of a run: a VacantHead whose run
\* would end inside the slot array and one whose run would end past it, a
\* VacantTail that links to slot 0 and one that ends the free list
VacantEntries ==
    {VacantHead(0), VacantHead(MaxSlots),
     VacantTail(0), VacantTail(INVALID_INDEX)}

\* The maps that differ from the map with fields s in the interior slots
\* of its runs at most, which hold any vacant slots
Variants(s) ==
    {[s EXCEPT !.entries =
        [i \in 1 .. Len(s.entries) |->
           IF i - 1 \in InteriorSlots(s.entries) THEN g[i - 1]
           ELSE s.entries[i]]] :
       g \in [InteriorSlots(s.entries) -> VacantEntries]}

\* The maps with fields a and b are equal except in the interior slots of
\* their runs
Similar(a, b) ==
    LET interior == InteriorSlots(a.entries) IN
    /\ a.next_vacant_idx = b.next_vacant_idx
    /\ a.len = b.len
    /\ a.non_optimized_count = b.non_optimized_count
    /\ Len(a.entries) = Len(b.entries)
    /\ interior = InteriorSlots(b.entries)
    /\ \A i \in 0 .. Len(a.entries) - 1 :
         IF i \in interior
         THEN ~IsOccupied(At(a.entries, i)) /\ ~IsOccupied(At(b.entries, i))
         ELSE At(a.entries, i) = At(b.entries, i)

\* The fields of the record r of an operation's outcome
FieldsOf(r) ==
    Fields(r.entries, r.next_vacant_idx, r.len, r.non_optimized_count)

\* C36: interior independence: a map that differs from a reachable one in
\* the interior slots of its runs only gives the same result for get,
\* contains_key, insert, remove, iter, optimize, retain and drain, and each
\* of these operations leaves the two maps equal except in the interior
\* slots of their runs again; so no sequence of operations tells them
\* apart.
C36_InteriorIndependence ==
    (~panicked /\ InteriorSlots(entries) # {}) =>
      \A t \in Variants(Self) :
        /\ Similar(Self, t)
        /\ \A k \in Keys : get_on(t, k) = get_on(Self, k)
        /\ \A k \in Keys :
             LET rs == RemoveResult_on(Self, k)
                 rt == RemoveResult_on(t, k)
             IN rt.ret = rs.ret /\ Similar(FieldsOf(rs), FieldsOf(rt))
        /\ \A f \in KeyFns :
             LET rs == insert_with_key_on(Self, f)
                 rt == insert_with_key_on(t, f)
             IN /\ rt.idx = rs.idx
                /\ rt.panic = rs.panic
                /\ rt.calls = rs.calls
                /\ Similar(FieldsOf(rs), FieldsOf(rt))
        /\ \A kind \in {"iter", "iter_mut", "into_iter", "drain"} :
             Collect(NewIter(kind, t.entries, t.len))
               = Collect(NewIter(kind, entries, len))
        /\ Similar(optimize(Self), optimize(t))
        /\ \A keep \in SUBSET OccupiedKeys(entries) :
             LET rs == merge_vacants(entries, keep)
                 rt == merge_vacants(t.entries, keep)
             IN rt.calls = rs.calls /\ Similar(FieldsOf(rs), FieldsOf(rt))

\* retain has kept the last of four values: slots 0 .. 2 are one run whose
\* interior, slot 1, can hold any vacant slot
C36_Witness ==
    /\ last.op = "retain"
    /\ Len(entries) = 4 /\ len = 1
    /\ InteriorSlots(entries) = {1}
    /\ At(entries, 1) = VacantTail(INVALID_INDEX)
    /\ Cardinality(Variants(Self)) = Cardinality(VacantEntries)

\* ---------------------------------------------------------------- C37
\* C37: when the closure given to insert_with_key panics after the key was
\* chosen, the insert has no effect or leaves a valid map: len is the
\* number of Occupied slots and the free list visits the run of every
\* vacant slot, the chosen one included.
C37_InsertUnwindValid ==
    ~panicked =>
      \/ insert_with_key_unwind(Self) = Self
      \/ /\ insert_with_key_unwind(Self).len
              = Cardinality(OccupiedKeys(insert_with_key_unwind(Self).entries))
         /\ FreeListWalk(insert_with_key_unwind(Self).entries,
                         insert_with_key_unwind(Self).next_vacant_idx,
                         {}).ok
         /\ FreeListWalk(insert_with_key_unwind(Self).entries,
                         insert_with_key_unwind(Self).next_vacant_idx,
                         {}).slots
              = VacantKeys(insert_with_key_unwind(Self).entries)

\* ---------------------------------------------------------------- C38
\* C38: retain walks the slot array in key order: whatever the predicate
\* answers, it is called exactly once for each Occupied slot, with that
\* slot's key, in strictly ascending order and for no vacant slot, and the
\* walk ends at or after the end of the slot array.
C38_RetainCalls ==
    ~panicked =>
      LET occupied == OccupiedKeys(entries) IN
      \A keep \in SUBSET occupied :
        LET calls == merge_vacants(entries, keep).calls IN
        /\ StrictlyIncreasing(calls)
        /\ SeqToSet(calls) = occupied
        /\ Len(calls) = Cardinality(occupied)
        /\ merge_run(entries, keep).idx >= Len(entries)

\* A retain has left keys 1 and 3 next to two vacant slots: the next
\* retain calls its predicate with 1 and then with 3
C38_Witness ==
    /\ last.op = "retain"
    /\ Len(entries) = 4
    /\ OccupiedKeys(entries) = {1, 3}
    /\ merge_vacants(entries, {1}).calls = << 1, 3 >>

\* ---------------------------------------------------------------- C39
\* C39: SmallSlabMap::retain passes to its predicate the key of each
\* element, the key iter() reports for it, in inline storage as in heap
\* storage; so it keeps exactly the keys SlabMap::retain keeps for the
\* same contents and predicate, which are those of the reference map.
C39_SmallRetainKeys ==
    ~panicked =>
      /\ \A keep \in SUBSET (0 .. MaxSlots - 1) :
           Small_retain_calls(keep) = KeysOf(Small_iter.out)
      /\ last.op = "retain" =>
           SeqToSet(Small_iter.out) = {<< k, m[k] >> : k \in DOMAIN m}

\* ---------------------------------------------------------------- C40
\* C40: in every state reached by insert, remove, optimize, retain, clear
\* and drain, next_vacant_idx is INVALID_INDEX or the index, in range, of a
\* VacantHead or VacantTail slot, and a VacantHead there with a body has a
\* slot after it; so insert_with_key reaches no unreachable!() and no
\* index out of bounds, whatever the value inserted.
C40_FreeHeadVacant ==
    ~panicked =>
      /\ \/ next_vacant_idx = INVALID_INDEX
         \/ /\ next_vacant_idx < Len(entries)
            /\ At(entries, next_vacant_idx).tag \in {"VacantHead", "VacantTail"}
      /\ \A idx \in 0 .. Len(entries) - 1 :
           /\ idx = next_vacant_idx
           /\ At(entries, idx).tag = "VacantHead"
           /\ At(entries, idx).vacant_body_len > 0
           => idx + 1 < Len(entries)
      /\ \A f \in KeyFns : ~insert_with_key(f).panic

\* An insert has taken the VacantTail slot at the head of the free list,
\* and the head has moved to the vacant slot that set_vacants linked
\* behind it, which the next insert takes.
C40_Witness ==
    /\ ~panicked
    /\ last.op = "insert"
    /\ IsOccupied(At(entries, last.key))
    /\ non_optimized_count = 0
    /\ next_vacant_idx < Len(entries)
    /\ next_vacant_idx > last.key + 1
    /\ At(entries, next_vacant_idx) = VacantTail(INVALID_INDEX)
    /\ insert_with_key([key \in 0 .. MaxSlots |-> MaxValue]).idx
         = next_vacant_idx
====
